---- MODULE Spec2Model ----
(***************************************************************************)
(* AIonic: the generic OpenAI client (src/src/openai/mod.rs), its chat     *)
(* capability and the server-sent-event reassembly of a streamed answer.   *)
(*                                                                         *)
(* Text is a sequence of one-character strings.  Bytes on the wire are a   *)
(* sequence of tokens; a token stands for a short run of bytes that the    *)
(* code never looks inside (the two halves of the `data: ` prefix, the     *)
(* sentinel, the frame of a JSON object, one choice object of it).         *)
(* Temperatures are in tenths (2.0 is 20).                                 *)
(***************************************************************************)
EXTENDS Integers, Sequences, FiniteSets, TLC

\* ------------------------------------------------------------ Option, Result
None == <<>>
Some(x) == <<x>>
is_some(o) == Len(o) = 1
is_none(o) == Len(o) = 0
unwrap(o) == o[1]
unwrap_or(o, d) == IF is_some(o) THEN o[1] ELSE d

\* ------------------------------------------------------------------- text
NL == "\n"
SP == " "
White == {NL, SP}

RECURSIVE trim_start(_)
trim_start(s) == IF Len(s) = 0 \/ s[1] \notin White THEN s ELSE trim_start(Tail(s))

RECURSIVE trim_end(_)
trim_end(s) == IF Len(s) = 0 \/ s[Len(s)] \notin White THEN s ELSE trim_end(SubSeq(s, 1, Len(s) - 1))

\* str::trim: leading and trailing whitespace removed
trim(s) == trim_end(trim_start(s))

\* str::strip_suffix(c): Some(rest) when the text ends in c, else None
strip_suffix(s, c) == IF Len(s) > 0 /\ s[Len(s)] = c THEN Some(SubSeq(s, 1, Len(s) - 1)) ELSE None

\* [String]::join(""): the fragments one after the other, no separator
RECURSIVE join(_)
join(parts) == IF Len(parts) = 0 THEN <<>> ELSE Head(parts) \o join(Tail(parts))

AI_PREFIX == <<"A", "I", ":", " ">>

\* ---------------------------------------------------------------- messages
\* Message::new(role, content); name and function_call are None
MessageNew(role, content) == [role |-> role, content |-> content]

\* impl From<T: Into<String>> for Message: a text becomes a user message
MessageFrom(s) == [role |-> "user", content |-> s]

\* -------------------------------------------------------------- wire tokens
Tok(k) == [k |-> k, index |-> 0, content |-> None]
T_DA == Tok("da")
T_TA == Tok("ta: ")
T_DONE == Tok("[DONE]")
T_OPEN == Tok("{")
T_CLOSE == Tok("}")
T_X == Tok("x")
T_NL == Tok("\n")

\* one element of a JSON `choices` array: StreamedChoices {index, delta: {content}}
\* in a streamed delta, Choice {index, message: {content}} in a full response
ChoiceTok(i, c) == [k |-> "choice", index |-> i, content |-> c]

\* the `error` member of an OpenAIError body, with its message
ErrorTok(msg) == [k |-> "error", index |-> 0, content |-> Some(msg)]

\* str::split('\n'): the pieces between newlines, the last (maybe empty) included
RECURSIVE split(_)
split(s) ==
  IF \A i \in 1..Len(s) : s[i] # T_NL THEN <<s>>
  ELSE LET i == CHOOSE j \in 1..Len(s) : s[j] = T_NL /\ \A h \in 1..(j - 1) : s[h] # T_NL
       IN  <<SubSeq(s, 1, i - 1)>> \o split(SubSeq(s, i + 1, Len(s)))

\* line.strip_prefix("data: ")
strip_prefix(line) ==
  IF Len(line) >= 2 /\ line[1] = T_DA /\ line[2] = T_TA
  THEN Some(SubSeq(line, 3, Len(line))) ELSE None

\* a reassembler that knows no sentinel
never_done(chunk) == FALSE

\* chunk.starts_with("[DONE]")
starts_with_done(chunk) == Len(chunk) >= 1 /\ chunk[1] = T_DONE

\* serde_json::from_str::<StreamedReponse>: Ok(choices) for one JSON object with a
\* `choices` array of well-formed choices, Err otherwise
from_str(chunk) ==
  IF /\ Len(chunk) >= 2
     /\ chunk[1] = T_OPEN
     /\ chunk[Len(chunk)] = T_CLOSE
     /\ \A i \in 2..(Len(chunk) - 1) : chunk[i].k = "choice"
  THEN [ok |-> TRUE, choices |-> SubSeq(chunk, 2, Len(chunk) - 1)]
  ELSE [ok |-> FALSE, choices |-> <<>>]

sanitized_strip(content) == unwrap_or(strip_suffix(content, NL), content)

\* content.trim().strip_suffix('\n').unwrap_or(&content)
sanitized_content(content) == unwrap_or(strip_suffix(trim(content), NL), content)

\* the `for choice in chunk.choices` loop of _process_delta; st holds what the
\* loop writes: answer_text and the standard output
RECURSIVE for_choice(_, _, _)
for_choice(choices, st, disable_live) ==
  IF Len(choices) = 0 THEN st
  ELSE LET choice == Head(choices)
           st1 == IF is_some(choice.content)
                  THEN LET sc == sanitized_content(unwrap(choice.content))
                       IN  [answer_text |-> Append(st.answer_text, sc),
                            stdout |-> IF ~disable_live THEN Append(st.stdout, sc) ELSE st.stdout]
                  ELSE st
       IN  for_choice(Tail(choices), st1, disable_live)

_process_delta_skip(line, st, disable_live) ==
  LET p == strip_prefix(line) IN
  IF is_none(p) THEN [ok |-> TRUE, st |-> st]
  ELSE LET chunk == unwrap(p) IN
       IF starts_with_done(chunk) THEN [ok |-> TRUE, st |-> st]
       ELSE LET serde_chunk == from_str(chunk) IN
            [ok |-> TRUE, st |-> for_choice(serde_chunk.choices, st, disable_live)]

_process_delta(line, st, disable_live) ==
  LET p == strip_prefix(line) IN
  IF is_none(p) THEN [ok |-> TRUE, st |-> st]
  ELSE LET chunk == unwrap(p) IN
       IF starts_with_done(chunk) THEN [ok |-> TRUE, st |-> st]
       ELSE LET serde_chunk == from_str(chunk) IN
            IF serde_chunk.ok
            THEN [ok |-> TRUE, st |-> for_choice(serde_chunk.choices, st, disable_live)]
            ELSE [ok |-> FALSE, st |-> st]

\* a loop that takes the lines of a chunk last to first
RECURSIVE for_line_backwards(_, _, _)
for_line_backwards(lines, st, disable_live) ==
  IF Len(lines) = 0 THEN [ok |-> TRUE, st |-> st]
  ELSE LET r == _process_delta(lines[Len(lines)], st, disable_live)
       IN  IF r.ok THEN for_line_backwards(SubSeq(lines, 1, Len(lines) - 1), r.st, disable_live) ELSE r

\* the `for line in lines` loop of _ask_openai_streamed, left at the first Err
RECURSIVE for_line(_, _, _)
for_line(lines, st, disable_live) ==
  IF Len(lines) = 0 THEN [ok |-> TRUE, st |-> st]
  ELSE LET r == _process_delta(Head(lines), st, disable_live)
       IN  IF r.ok THEN for_line(Tail(lines), r.st, disable_live) ELSE r

\* Response::json::<Response>() on the whole body: a JSON object whose `choices`,
\* when present, are choices with a text content (Message.content is a String);
\* any other member (an `error`) is ignored
json_Response(body) ==
  IF /\ Len(body) >= 2
     /\ body[1] = T_OPEN
     /\ body[Len(body)] = T_CLOSE
     /\ \A i \in 2..(Len(body) - 1) :
          \/ body[i].k = "error"
          \/ body[i].k = "choice" /\ is_some(body[i].content)
  THEN [ok |-> TRUE, choices |-> SelectSeq(SubSeq(body, 2, Len(body) - 1), LAMBDA t : t.k = "choice")]
  ELSE [ok |-> FALSE, choices |-> <<>>]

\* the `for choice in choices` loop of the non-streamed branch of ask
RECURSIVE for_message(_, _, _)
for_message(choices, st, disable_live) ==
  IF Len(choices) = 0 THEN st
  ELSE LET content == unwrap(Head(choices).content)
           st1 == [answer_text |-> Append(st.answer_text, content),
                   stdout |-> IF ~disable_live
                              THEN Append(st.stdout, AI_PREFIX \o content \o <<NL>>)
                              ELSE st.stdout]
       IN  for_message(Tail(choices), st1, disable_live)

\* ------------------------------------------------------------ configuration
DEFAULT_TEMPERATURE == 10
DEFAULT_STREAM_RESPONSE == TRUE
CHAT_TEMPERATURE_LIMIT == 20

\* (0.0..=limit).contains(&temperature)
is_valid_temperature(temp, limit) == 0 <= temp /\ temp <= limit

\* the temperature check that opens ask: an invalid value is replaced by Some(2.0)
checked_temperature(temp) ==
  IF is_some(temp) /\ ~is_valid_temperature(unwrap(temp), CHAT_TEMPERATURE_LIMIT)
  THEN Some(CHAT_TEMPERATURE_LIMIT) ELSE temp

\* serde's Serialize for Chat, as the map from the keys present in the JSON object
\* to their values: an Option that is None is skipped
to_json_stale(msgs, temp, strm) ==
  LET keys == {"messages"} \cup (IF is_some(temp) THEN {"temperature"} ELSE {})
                           \cup (IF is_some(strm) THEN {"stream"} ELSE {})
  IN  [key \in keys |-> CASE key = "messages" -> SubSeq(msgs, 1, Len(msgs) - 1)
                          [] key = "temperature" -> unwrap(temp)
                          [] key = "stream" -> unwrap(strm)]

to_json(msgs, temp, strm) ==
  LET keys == {"messages"} \cup (IF is_some(temp) THEN {"temperature"} ELSE {})
                           \cup (IF is_some(strm) THEN {"stream"} ELSE {})
  IN  [key \in keys |-> CASE key = "messages" -> msgs
                          [] key = "temperature" -> unwrap(temp)
                          [] key = "stream" -> unwrap(strm)]

\* Vec::insert(0, msg)
insert_push(msgs, msg) == Append(msgs, msg)

insert_0(msgs, msg) == <<msg>> \o msgs

\* a clear that spares the primers
clear_but_primers(msgs) == SelectSeq(msgs, LAMBDA m : m.role = "system")

\* Vec::clear
clear(msgs) == <<>>

\* Vec::pop: the last element removed, nothing on an empty vector
pop(msgs) == IF Len(msgs) = 0 THEN msgs ELSE SubSeq(msgs, 1, Len(msgs) - 1)

\* Vec::last
get_last_message(msgs) == IF Len(msgs) = 0 THEN None ELSE Some(msgs[Len(msgs)])

\* the end of ask: the history after `if persist_state {push} else {pop}`
persist_swapped(msgs, persist_state, answer_text) ==
  IF persist_state
  THEN Append(pop(msgs), MessageNew("assistant", answer_text))
  ELSE pop(msgs)

persist(msgs, persist_state, answer_text) ==
  IF persist_state
  THEN Append(msgs, MessageNew("assistant", answer_text))
  ELSE pop(msgs)

\* StatusCode::is_success
is_success(status) == 200 <= status /\ status <= 299

\* ------------------------------------------------- defaults of the clients
DEFAULT_MAX_TOKENS == 2048
DEFAULT_MODEL == "gpt-3.5-turbo"

\* impl OpenAIConfig for Chat: the fields of Chat the model follows
Chat_default ==
  [model |-> DEFAULT_MODEL,
   messages |-> <<>>,
   temperature |-> Some(DEFAULT_TEMPERATURE),
   stream |-> Some(DEFAULT_STREAM_RESPONSE),
   max_tokens |-> Some(DEFAULT_MAX_TOKENS)]

DEFAULT_N == 1
DEFAULT_SIZE == <<"1", "0", "2", "4", "x", "1", "0", "2", "4">>
DEFAULT_RESPONSE_FORMAT == "url"

\* impl OpenAIConfig for Image
Image_default ==
  [prompt |-> None,
   n |-> Some(DEFAULT_N),
   size |-> Some(DEFAULT_SIZE),
   response_format |-> Some(DEFAULT_RESPONSE_FORMAT),
   user |-> None,
   image |-> None,
   mask |-> None]

AUDIO_DEFAULT_MODEL == "whisper-1"

\* impl OpenAIConfig for Audio
Audio_default ==
  [file |-> <<>>,
   model |-> AUDIO_DEFAULT_MODEL,
   prompt |-> None,
   response_format |-> Some("Json"),
   temperature |-> Some(0),
   language |-> None]

\* impl OpenAIConfig for Files
Files_default == [file |-> None, purpose |-> None, file_id |-> None]

\* ------------------------------------------------------------ environment
\* OPENAI_API_KEY as std::env::var finds it: not set, set to bytes that are no
\* Unicode, or set to a key
NotPresent == [var |-> "NotPresent", key |-> ""]
NotUnicode == [var |-> "NotUnicode", key |-> ""]
Present(key) == [var |-> "Ok", key |-> key]

\* a lookup that takes a missing variable for an empty one
env_var_or_empty(e) == [ok |-> TRUE, val |-> e.key]

\* env::var("OPENAI_API_KEY"): Ok(key), or Err(VarError) in the two other cases
env_var(e) == IF e.var = "Ok" THEN [ok |-> TRUE, val |-> e.key] ELSE [ok |-> FALSE, val |-> ""]

\* ------------------------------------------------------------------ bounds
MaxHist == 5
MaxLines == 2
MaxCuts == 2

\* ------------------------------------------------------------------- state
VARIABLES
  messages,             \* config.messages: the conversation history
  temperature,          \* config.temperature: Option<f64>, in tenths
  stream,               \* config.stream: Option<bool>
  disable_live_stream,  \* the client's live-output switch
  pc,                   \* where the client is: "idle", or inside ask "awaiting" / "draining"
  frame,                \* the locals of the ask in flight
  res,                  \* the open response: status, chunks still to come, how the body ends
  stdout,               \* what the operation in progress (or the last one) wrote
  last,                 \* the operation called last and its arguments
  pre,                  \* the configuration when the last ask was called
  ret,                  \* what the last ask returned
  sent,                 \* the request bodies the last operation sent
  got,                  \* the response the last ask was given, whole
  script,               \* the history the calls so far should have built (fresh client,
                        \* one primer, then successful persisted asks)
  model,                \* config.model of the chat client
  max_tokens,           \* config.max_tokens of the chat client: Option<u64>
  chat_loop,            \* the chat() call in progress, and how the last one ended
  env,                  \* OPENAI_API_KEY in the environment of the process
  api_key,              \* the api_key of the clients: None while none is constructed
  exit_status,          \* Some(status) once the process has exited
  image,                \* the configuration of the image client
  audio,                \* the configuration of the audio client
  files,                \* the configuration of the files client
  serde                 \* a configuration value on its way to JSON and back

config == <<model, messages, temperature, stream, max_tokens>>
obs == <<stdout, pre, ret, sent, got>>
\* what no call on the chat client touches
elsewhere == <<env, api_key, exit_status, image, audio, files, serde>>
vars == <<messages, temperature, stream, disable_live_stream, pc, frame, res, stdout, last, pre, ret, sent, got, script,
          model, max_tokens, chat_loop, env, api_key, exit_status, image, audio, files, serde>>

NoFrame == [is_streamed |-> FALSE, persist_state |-> FALSE, answer_chunks |-> <<>>]
NoRes == [status |-> 0, chunks |-> <<>>, end |-> "eof"]
NoRet == [kind |-> "none", text |-> <<>>, err |-> <<>>]
NoPre == [messages |-> <<>>, temperature |-> None]
Ok(text) == [kind |-> "ok", text |-> text, err |-> <<>>]
Err(e) == [kind |-> "err", text |-> <<>>, err |-> <<e>>]
Call(op, text, flag, num) == [op |-> op, text |-> text, flag |-> flag, num |-> num]
Off == [on |-> FALSE, primed |-> FALSE, exp |-> <<>>]
NoLoop == [on |-> FALSE, ret |-> NoRet, end |-> "none"]
NoSerde == [stage |-> "none"]

\* the key the environment holds when it holds one
Keys == {"k1", "k2"}

\* OpenAI::<C>::new() of each capability, with the credential set
Init ==
  /\ env = Present("k1")
  /\ api_key = Some(env.key)
  /\ exit_status = None
  /\ model = Chat_default.model
  /\ messages = Chat_default.messages
  /\ temperature = Chat_default.temperature
  /\ stream = Chat_default.stream
  /\ max_tokens = Chat_default.max_tokens
  /\ chat_loop = NoLoop
  /\ image = Image_default
  /\ audio = Audio_default
  /\ files = Files_default
  /\ serde = NoSerde
  /\ disable_live_stream = FALSE
  /\ pc = "idle"
  /\ frame = NoFrame
  /\ res = NoRes
  /\ stdout = <<>>
  /\ last = Call("new", <<>>, FALSE, 0)
  /\ pre = NoPre
  /\ ret = NoRet
  /\ sent = <<>>
  /\ got = NoRes
  /\ script = [on |-> TRUE, primed |-> FALSE, exp |-> <<>>]

\* a builder call is no operation: it sends, prints and returns nothing
Silent ==
  /\ stdout' = <<>>
  /\ pre' = NoPre
  /\ ret' = NoRet
  /\ sent' = <<>>
  /\ got' = NoRes
  /\ UNCHANGED <<pc, frame, res, chat_loop>>

\* a builder call on the chat client
Quiet == Silent /\ UNCHANGED elsewhere

\* ---------------------------------------------------------- builder calls
set_primer(primer_msg) ==
  /\ pc = "idle"
  /\ Len(messages) < MaxHist
  /\ messages' = insert_0(messages, MessageNew("system", primer_msg))
  /\ last' = Call("set_primer", primer_msg, FALSE, 0)
  /\ script' = IF script.on /\ ~script.primed
               THEN [on |-> TRUE, primed |-> TRUE, exp |-> <<MessageNew("system", primer_msg)>>]
               ELSE Off
  /\ Quiet
  /\ UNCHANGED <<temperature, stream, disable_live_stream, model, max_tokens>>

set_messages(msgs) ==
  /\ pc = "idle"
  /\ messages' = msgs
  /\ last' = Call("set_messages", <<>>, FALSE, 0)
  /\ script' = Off
  /\ Quiet
  /\ UNCHANGED <<temperature, stream, disable_live_stream, model, max_tokens>>

clear_state ==
  /\ pc = "idle"
  /\ messages' = clear(messages)
  /\ last' = Call("clear_state", <<>>, \E i \in 1..Len(messages) : messages[i].role = "system", Len(messages))
  /\ script' = Off
  /\ Quiet
  /\ UNCHANGED <<temperature, stream, disable_live_stream, model, max_tokens>>

set_temperature(t) ==
  /\ pc = "idle"
  /\ temperature' = Some(t)
  /\ last' = Call("set_temperature", <<>>, FALSE, t)
  /\ Quiet
  /\ UNCHANGED <<messages, stream, disable_live_stream, script, model, max_tokens>>

set_stream_responses(streamed) ==
  /\ pc = "idle"
  /\ stream' = Some(streamed)
  /\ last' = Call("set_stream_responses", <<>>, streamed, 0)
  /\ Quiet
  /\ UNCHANGED <<messages, temperature, disable_live_stream, script, model, max_tokens>>

disable_stdout ==
  /\ pc = "idle"
  /\ disable_live_stream' = TRUE
  /\ last' = Call("disable_stdout", <<>>, FALSE, 0)
  /\ Quiet
  /\ UNCHANGED <<messages, temperature, stream, script, model, max_tokens>>

\* a set_model that starts from a fresh configuration
set_model_fresh(m) ==
  /\ pc = "idle"
  /\ model' = m
  /\ max_tokens' = Chat_default.max_tokens
  /\ last' = Call("set_model", <<>>, FALSE, 0)
  /\ Quiet
  /\ UNCHANGED <<messages, temperature, stream, disable_live_stream, script>>

set_model(m) ==
  /\ pc = "idle"
  /\ model' = m
  /\ last' = Call("set_model", <<>>, FALSE, 0)
  /\ Quiet
  /\ UNCHANGED <<messages, temperature, stream, max_tokens, disable_live_stream, script>>

set_max_tokens(n) ==
  /\ pc = "idle"
  /\ max_tokens' = Some(n)
  /\ last' = Call("set_max_tokens", <<>>, FALSE, n)
  /\ Quiet
  /\ UNCHANGED <<model, messages, temperature, stream, disable_live_stream, script>>

\* with_config on the chat client: the configuration is replaced whole
with_config(cfg) ==
  /\ pc = "idle"
  /\ model' = cfg.model
  /\ messages' = cfg.messages
  /\ temperature' = cfg.temperature
  /\ stream' = cfg.stream
  /\ max_tokens' = cfg.max_tokens
  /\ last' = Call("chat.with_config", <<>>, FALSE, 0)
  /\ script' = Off
  /\ Quiet
  /\ UNCHANGED disable_live_stream

\* --------------------------------------------------------------------- ask
\* what the calls so far should have built, after an ask has returned r
script_after(r) ==
  IF script.on /\ script.primed /\ frame.persist_state /\ r.kind = "ok"
  THEN [script EXCEPT !.exp = script.exp \o <<MessageFrom(last.text), MessageNew("assistant", r.text)>>]
  ELSE Off

\* ask returns r: its frame is gone, the response is dropped.  Called from the
\* loop of chat, an Ok leads to the next readline and an Err leaves chat through `?`
Return(r) ==
  /\ ret' = r
  /\ pc' = IF chat_loop.on /\ r.kind = "ok" THEN "reading" ELSE "idle"
  /\ chat_loop' = IF chat_loop.on /\ r.kind = "err"
                  THEN [on |-> FALSE, ret |-> r, end |-> "ask"]
                  ELSE chat_loop
  /\ frame' = NoFrame
  /\ res' = NoRes
  /\ script' = script_after(r)

\* the println!() of chat after an ask that returned Ok
after_ask(out) == IF chat_loop.on THEN Append(out, <<NL>>) ELSE out

\* ask, up to the send of _make_post_request: the prompt is pushed, the temperature
\* checked, the configuration serialized and posted
begin_ask(prompt, persist_state) ==
  /\ Len(messages) + 2 <= MaxHist
  /\ messages' = Append(messages, MessageFrom(prompt))
  /\ temperature' = checked_temperature(temperature)
  /\ frame' = [is_streamed |-> unwrap_or(stream, FALSE),
               persist_state |-> persist_state,
               answer_chunks |-> <<>>]
  /\ sent' = <<to_json(messages', temperature', stream)>>
  /\ pc' = "awaiting"
  /\ last' = Call("ask", prompt, persist_state, 0)
  /\ pre' = [messages |-> messages, temperature |-> temperature]
  /\ stdout' = <<>>
  /\ ret' = NoRet
  /\ got' = NoRes
  /\ UNCHANGED <<model, max_tokens, stream, disable_live_stream, res, script, chat_loop, elsewhere>>

\* ask called by the program
ask(prompt, persist_state) ==
  /\ pc = "idle"
  /\ begin_ask(prompt, persist_state)

\* a client that answers a failed send with a second request
send_error_retry ==
  /\ pc = "awaiting"
  /\ Len(sent) = 1
  /\ sent' = Append(sent, sent[1])
  /\ UNCHANGED <<config, disable_live_stream, pc, frame, res, ret, script, chat_loop,
                 stdout, last, pre, got, elsewhere>>

\* send().await? fails: no response, ask returns the transport error
send_error ==
  /\ pc = "awaiting"
  /\ Return(Err("transport"))
  /\ UNCHANGED <<config, disable_live_stream, stdout, last, pre, sent, got, elsewhere>>

\* the response r arrives and streaming is on: _ask_openai_streamed begins
response_streamed(r) ==
  /\ pc = "awaiting"
  /\ frame.is_streamed
  /\ res' = r
  /\ got' = r
  /\ stdout' = Append(stdout, AI_PREFIX)
  /\ pc' = "draining"
  /\ UNCHANGED <<config, disable_live_stream, frame, last, pre, ret, sent, script, chat_loop, elsewhere>>

\* the response r arrives and streaming is off: the body is read whole and decoded,
\* each choice is printed and collected, the answer joined and persisted or popped
response_json(r) ==
  /\ pc = "awaiting"
  /\ ~frame.is_streamed
  /\ got' = r
  /\ LET body == json_Response(join(r.chunks)) IN
     IF r.end = "err" THEN
       /\ Return(Err("transport"))
       /\ UNCHANGED <<messages, stdout>>
     ELSE IF ~body.ok THEN
       /\ Return(Err("decode"))
       /\ UNCHANGED <<messages, stdout>>
     ELSE
       LET st == for_message(body.choices, [answer_text |-> <<>>, stdout |-> stdout],
                             disable_live_stream)
           answer_text == join(st.answer_text)
       IN  /\ stdout' = after_ask(st.stdout)
           /\ messages' = persist(messages, frame.persist_state, answer_text)
           /\ Return(Ok(answer_text))
  /\ UNCHANGED <<model, max_tokens, temperature, stream, disable_live_stream, last, pre, sent, elsewhere>>

\* a loop that leaves at the sentinel: when a line of the chunk carries [DONE]
\* the answer so far is returned, chunks to come or not
chunk_until_done ==
  /\ pc = "draining"
  /\ Len(res.chunks) > 0
  /\ LET lines == split(Head(res.chunks))
         r == for_line(lines, [answer_text |-> frame.answer_chunks, stdout |-> stdout],
                       disable_live_stream)
         done == \E i \in 1..Len(lines) :
                   is_some(strip_prefix(lines[i])) /\ starts_with_done(unwrap(strip_prefix(lines[i])))
     IN  IF ~r.ok THEN
           /\ stdout' = r.st.stdout
           /\ Return(Err("Deserialization Error"))
           /\ UNCHANGED messages
         ELSE IF done THEN
           /\ stdout' = after_ask(Append(r.st.stdout, <<NL>>))
           /\ messages' = persist(messages, frame.persist_state, join(r.st.answer_text))
           /\ Return(Ok(join(r.st.answer_text)))
         ELSE
           /\ stdout' = r.st.stdout
           /\ frame' = [frame EXCEPT !.answer_chunks = r.st.answer_text]
           /\ res' = [res EXCEPT !.chunks = Tail(res.chunks)]
           /\ UNCHANGED <<messages, pc, ret, script, chat_loop>>
  /\ UNCHANGED <<model, max_tokens, temperature, stream, disable_live_stream, last, pre, sent, got, elsewhere>>

\* res.chunk() gives Ok(Some(chunk)): its lines are processed in order; the first
\* line that fails makes ask return the error
chunk ==
  /\ pc = "draining"
  /\ Len(res.chunks) > 0
  /\ LET lines == split(Head(res.chunks))
         r == for_line(lines, [answer_text |-> frame.answer_chunks, stdout |-> stdout],
                       disable_live_stream)
     IN  /\ stdout' = r.st.stdout
         /\ IF r.ok
            THEN /\ frame' = [frame EXCEPT !.answer_chunks = r.st.answer_text]
                 /\ res' = [res EXCEPT !.chunks = Tail(res.chunks)]
                 /\ UNCHANGED <<pc, ret, script, chat_loop>>
            ELSE Return(Err("Deserialization Error"))
  /\ UNCHANGED <<config, disable_live_stream, last, pre, sent, got, elsewhere>>

\* res.chunk() gives Ok(None): the loop ends, the answer is joined and persisted
\* or the prompt popped
body_end ==
  /\ pc = "draining"
  /\ Len(res.chunks) = 0
  /\ res.end = "eof"
  /\ stdout' = after_ask(Append(stdout, <<NL>>))
  /\ LET answer_text == join(frame.answer_chunks)
     IN  /\ messages' = persist(messages, frame.persist_state, answer_text)
         /\ Return(Ok(answer_text))
  /\ UNCHANGED <<model, max_tokens, temperature, stream, disable_live_stream, last, pre, sent, got, elsewhere>>

\* a read error that takes the prompt back out of the history
chunk_error_rollback ==
  /\ pc = "draining"
  /\ Len(res.chunks) = 0
  /\ res.end = "err"
  /\ messages' = SubSeq(messages, 1, Len(messages) - 1)
  /\ Return(Err("transport"))
  /\ UNCHANGED <<model, max_tokens, temperature, stream, disable_live_stream, stdout, last,
                 pre, sent, got, elsewhere>>

\* res.chunk() gives Err(e): ask returns it
chunk_error ==
  /\ pc = "draining"
  /\ Len(res.chunks) = 0
  /\ res.end = "err"
  /\ Return(Err("transport"))
  /\ UNCHANGED <<config, disable_live_stream, stdout, last, pre, sent, got, elsewhere>>

\* ------------------------------------------------------------------ inputs
Primers == {<<"p">>, <<"s">>}
Prompts == {<<"q">>, <<"r">>}
Temperatures == {-5, 20, 25}
MessageLists == {<<MessageNew("assistant", <<"a">>)>>}
Models == {"gpt-4"}
MaxTokens == {16}

DataLine(payload) == <<T_DA, T_TA>> \o payload
Delta(choices) == <<T_OPEN>> \o choices \o <<T_CLOSE>>
ErrorBody == <<T_OPEN, ErrorTok(<<"e">>), T_CLOSE>>

\* what the server may answer a request of the conversation model with: an SSE
\* body when the request asked for a stream, a JSON body when it did not, and an
\* OpenAIError body with a failure status
Bodies(streamed) ==
  IF streamed
  THEN { DataLine(Delta(<<ChoiceTok(0, Some(<<"a">>))>>)) \o <<T_NL>> \o DataLine(<<T_DONE>>) \o <<T_NL>>,
         DataLine(<<T_X>>) \o <<T_NL>> }
  ELSE { Delta(<<ChoiceTok(0, Some(<<"a">>))>>), <<T_X>> }

Responses(streamed) ==
  { [status |-> 200, chunks |-> <<b>>, end |-> e] : b \in Bodies(streamed), e \in {"eof", "err"} }
  \cup { [status |-> 401, chunks |-> <<ErrorBody>>, end |-> "eof"] }

\* ------------------------------------------------------- the conversation
Next ==
  \/ \E p \in Primers : set_primer(p)
  \/ \E m \in MessageLists : set_messages(m)
  \/ clear_state
  \/ \E t \in Temperatures : set_temperature(t)
  \/ \E b \in BOOLEAN : set_stream_responses(b)
  \/ disable_stdout
  \/ \E p \in Prompts, b \in BOOLEAN : ask(p, b)
  \/ send_error
  \/ pc = "awaiting" /\ \E r \in Responses(TRUE) : response_streamed(r)
  \/ pc = "awaiting" /\ \E r \in Responses(FALSE) : response_json(r)
  \/ chunk
  \/ body_end
  \/ chunk_error

Spec == Init /\ [][Next]_vars

\* ------------------------------------------------------- the reassembler
\* the lines a stream may be made of: deltas of one choice or of two, with and
\* without content, the sentinel alone and followed by more, a payload that is no
\* JSON, a line without the prefix
StreamLines ==
  { DataLine(Delta(<<ChoiceTok(0, Some(<<"a">>))>>)),
    DataLine(Delta(<<ChoiceTok(0, Some(<<"b", NL>>))>>)),
    DataLine(Delta(<<ChoiceTok(1, Some(<<"c">>))>>)),
    DataLine(Delta(<<ChoiceTok(0, Some(<<"a">>)), ChoiceTok(1, Some(<<"c">>))>>)),
    DataLine(Delta(<<ChoiceTok(0, None)>>)),
    DataLine(<<T_DONE>>),
    DataLine(<<T_DONE, T_X>>),
    DataLine(<<T_X>>),
    <<T_X>> }

\* the lines, each ended by a newline
RECURSIVE unlines(_)
unlines(ls) == IF Len(ls) = 0 THEN <<>> ELSE Head(ls) \o <<T_NL>> \o unlines(Tail(ls))

\* the sets of at most k places where a body of n tokens may be cut
RECURSIVE CutSets(_, _)
CutSets(n, k) ==
  IF k = 0 THEN {{}}
  ELSE CutSets(n, k - 1) \cup { c \cup {i} : c \in CutSets(n, k - 1), i \in 1..(n - 1) }

\* the body cut after each place of cuts: the chunks the transport delivers
RECURSIVE cut_at(_, _)
cut_at(body, cuts) ==
  IF cuts = {} THEN <<body>>
  ELSE LET i == CHOOSE j \in cuts : \A h \in cuts : j <= h
       IN  <<SubSeq(body, 1, i)>>
           \o cut_at(SubSeq(body, i + 1, Len(body)), { h - i : h \in cuts \ {i} })

NextStream ==
  \/ clear_state
  \/ disable_stdout
  \/ messages = <<>> /\ \E b \in BOOLEAN : ask(<<"q">>, b)
  \/ send_error
  \/ pc = "awaiting" /\ \E n \in 1..MaxLines : \E ls \in [1..n -> StreamLines] :
       \E cuts \in CutSets(Len(unlines(ls)), MaxCuts) :
         response_streamed([status |-> 200, chunks |-> cut_at(unlines(ls), cuts), end |-> "eof"])
  \/ chunk
  \/ body_end

SpecStream == Init /\ [][NextStream]_vars

\* ------------------------------------------------------ the end of a stream
\* the chunks a body may be delivered in: a delta, the sentinel, the sentinel
\* with a delta after it, a payload that is no JSON
DrainChunks ==
  { unlines(<<DataLine(Delta(<<ChoiceTok(0, Some(<<"a">>))>>))>>),
    unlines(<<DataLine(<<T_DONE>>)>>),
    unlines(<<DataLine(<<T_DONE>>), DataLine(Delta(<<ChoiceTok(0, Some(<<"b">>))>>))>>),
    unlines(<<DataLine(<<T_X>>)>>) }

\* the bodies of no, one and two chunks, ended by the end of the body or by a
\* read error
DrainResponses ==
  { [status |-> 200, chunks |-> cs, end |-> e] :
      cs \in {<<>>} \cup { <<c>> : c \in DrainChunks } \cup { <<c, d>> : c \in DrainChunks, d \in DrainChunks },
      e \in {"eof", "err"} }

NextDrain ==
  \/ clear_state
  \/ messages = <<>> /\ \E b \in BOOLEAN : ask(<<"q">>, b)
  \/ send_error
  \/ pc = "awaiting" /\ \E r \in DrainResponses : response_streamed(r)
  \/ chunk
  \/ body_end
  \/ chunk_error

\* one turn of the `while let` loop of _ask_openai_streamed: a chunk, the end of
\* the body, or a read error
drain_step == chunk \/ body_end \/ chunk_error

\* the loop is enabled exactly while the answer is being drained
draining == pc = "draining"

\* the transport delivers what the body holds and then its end: a read that can
\* be made is made. This is weak fairness of the loop, WF_vars(drain_step),
\* written out with `draining` for ENABLED <<drain_step>>_vars.
SpecDrain ==
  /\ Init
  /\ [][NextDrain]_vars
  /\ ([]<>(~draining) \/ []<><<drain_step>>_vars)

\* ---------------------------------------------------------- the session
\* a program that builds a chat client, sets it up and talks through chat()
Unbuilt == "unbuilt"
NOT_SET == <<"OPENAI_API_KEY environment variable not set", NL>>
CTRL_C == <<"CTRL-C", NL>>
CTRL_D == <<"CTRL-D", NL>>
READLINE_ERROR == <<"Error: ", "err", NL>>

\* the process before main builds the client
InitProcess ==
  /\ env \in {NotPresent, NotUnicode} \cup {Present(k) : k \in Keys}
  /\ api_key = None
  /\ exit_status = None
  /\ model = Unbuilt
  /\ messages = Unbuilt
  /\ temperature = Unbuilt
  /\ stream = Unbuilt
  /\ max_tokens = Unbuilt
  /\ disable_live_stream = Unbuilt
  /\ chat_loop = NoLoop
  /\ image = Image_default
  /\ audio = Audio_default
  /\ files = Files_default
  /\ serde = NoSerde
  /\ pc = "start"
  /\ frame = NoFrame
  /\ res = NoRes
  /\ stdout = <<>>
  /\ last = Call("main", <<>>, FALSE, 0)
  /\ pre = NoPre
  /\ ret = NoRet
  /\ sent = <<>>
  /\ got = NoRes
  /\ script = [on |-> TRUE, primed |-> FALSE, exp |-> <<>>]

\* OpenAI::<Chat>::new(): without the variable the message is printed and the
\* process exits with 1; with it the client is built around the defaults
new ==
  /\ pc = "start"
  /\ last' = Call("new", <<>>, FALSE, 0)
  /\ LET v == env_var(env) IN
     IF v.ok
     THEN /\ api_key' = Some(v.val)
          /\ disable_live_stream' = FALSE
          /\ model' = Chat_default.model
          /\ messages' = Chat_default.messages
          /\ temperature' = Chat_default.temperature
          /\ stream' = Chat_default.stream
          /\ max_tokens' = Chat_default.max_tokens
          /\ pc' = "idle"
          /\ UNCHANGED <<stdout, exit_status>>
     ELSE /\ stdout' = <<NOT_SET>>
          /\ exit_status' = Some(1)
          /\ pc' = "exited"
          /\ UNCHANGED <<api_key, disable_live_stream, config>>
  /\ UNCHANGED <<env, chat_loop, image, audio, files, serde, frame, res, pre, ret, sent, got, script>>

\* chat(), up to its loop: DefaultEditor::new()? gives the editor or the error
chat(editor_ok) ==
  /\ pc = "idle"
  /\ last' = Call("chat", <<>>, editor_ok, 0)
  /\ IF editor_ok
     THEN /\ chat_loop' = [on |-> TRUE, ret |-> NoRet, end |-> "none"]
          /\ pc' = "reading"
     ELSE /\ chat_loop' = [on |-> FALSE, ret |-> Err("editor"), end |-> "editor"]
          /\ pc' = "idle"
  /\ stdout' = <<>>
  /\ pre' = NoPre
  /\ ret' = NoRet
  /\ sent' = <<>>
  /\ got' = NoRes
  /\ UNCHANGED <<config, disable_live_stream, frame, res, script, elsewhere>>

\* what rl.readline(prompt) may give
Line(text) == [kind |-> "Ok", line |-> text]
Interrupted == [kind |-> "Interrupted", line |-> <<>>]
Eof == [kind |-> "Eof", line |-> <<>>]
OtherError == [kind |-> "Other", line |-> <<>>]

\* what chat prints when readline gives an error
goodbye(readline) ==
  CASE readline.kind = "Interrupted" -> CTRL_C
    [] readline.kind = "Eof" -> CTRL_D
    [] OTHER -> READLINE_ERROR

\* one turn of the loop of chat: a line goes to ask(line, true); every error of
\* readline is printed and breaks the loop, after which chat returns Ok(())
readline(outcome) ==
  /\ pc = "reading"
  /\ IF outcome.kind = "Ok"
     THEN begin_ask(outcome.line, TRUE)
     ELSE /\ stdout' = <<goodbye(outcome)>>
          /\ chat_loop' = [on |-> FALSE, ret |-> Ok(<<>>), end |-> outcome.kind]
          /\ pc' = "idle"
          /\ last' = Call("chat", <<>>, TRUE, 0)
          /\ UNCHANGED <<config, disable_live_stream, frame, res, pre, ret, sent, got, script, elsewhere>>

\* what the session types and sets
Lines == {<<"q">>}
SessionPrimers == {<<"p">>}
SessionTemperatures == {5}

NextSession ==
  \/ new
  \/ \E p \in SessionPrimers : set_primer(p)
  \/ clear_state
  \/ \E m \in Models : set_model(m)
  \/ \E n \in MaxTokens : set_max_tokens(n)
  \/ \E t \in SessionTemperatures : set_temperature(t)
  \/ \E b \in BOOLEAN : set_stream_responses(b)
  \/ disable_stdout
  \/ \E b \in BOOLEAN : chat(b)
  \/ \E o \in {Line(p) : p \in Lines} \cup {Interrupted, Eof, OtherError} : readline(o)
  \/ send_error
  \/ pc = "awaiting" /\ \E r \in Responses(TRUE) : response_streamed(r)
  \/ pc = "awaiting" /\ \E r \in Responses(FALSE) : response_json(r)
  \/ chunk
  \/ body_end
  \/ chunk_error

SpecSession == InitProcess /\ [][NextSession]_vars

\* ----------------------------------------------------------------- the disk
\* a path is its bytes, one character each; BadByte is a byte that is no UTF-8
BadByte == "<ff>"
IMG == <<"a", ".", "p", "n", "g">>
MASK == <<"m", ".", "p", "n", "g">>
GONE == <<"g", ".", "p", "n", "g">>
BAD_GONE == <<BadByte, ".", "p", "n", "g">>
JSONL == <<"t", ".", "j", "s", "o", "n", "l">>
JSONL_UPPER == <<"T", ".", "J", "S", "O", "N", "L">>
TXT == <<"t", ".", "t", "x", "t">>
NO_EXT == <<"j", "s", "o", "n", "l">>
DOT_JSONL == <<".", "j", "s", "o", "n", "l">>
DIR_JSONL == <<"d", ".", "j", "s", "o", "n", "l">>
GONE_JSONL == <<"g", ".", "j", "s", "o", "n", "l">>
BAD_JSONL == <<BadByte, ".", "j", "s", "o", "n", "l">>
WAV == <<"s", ".", "w", "a", "v">>

\* what the file system holds: regular files and a directory; GONE, BAD_GONE and
\* GONE_JSONL are names of nothing
Disk ==
  (IMG :> "file") @@ (MASK :> "file") @@ (JSONL :> "file") @@ (JSONL_UPPER :> "file")
  @@ (TXT :> "file") @@ (NO_EXT :> "file") @@ (DOT_JSONL :> "file") @@ (DIR_JSONL :> "dir")
  @@ (BAD_JSONL :> "file") @@ (WAV :> "file")

\* Path::exists
exists(path) == path \in DOMAIN Disk

\* fs::metadata(path), and Metadata::is_file of it
metadata(path) ==
  IF path \in DOMAIN Disk
  THEN [ok |-> TRUE, is_file |-> Disk[path] = "file"]
  ELSE [ok |-> FALSE, is_file |-> FALSE]

\* Path::to_str: None when the path is no UTF-8
to_str(path) == IF \E i \in 1..Len(path) : path[i] = BadByte THEN None ELSE Some(path)

\* Path::extension: what follows the last dot of the file name; None without a
\* dot and when the only dot opens the name
extension(path) ==
  LET dots == {i \in 1..Len(path) : path[i] = "."} IN
  IF dots = {} THEN None
  ELSE LET d == CHOOSE i \in dots : \A j \in dots : j <= i
       IN  IF d = 1 THEN None ELSE Some(SubSeq(path, d + 1, Len(path)))

Upper == ("J" :> "j") @@ ("S" :> "s") @@ ("O" :> "o") @@ ("N" :> "n") @@ ("L" :> "l") @@ ("T" :> "t")

\* u8::to_ascii_lowercase
to_ascii_lowercase(c) == IF c \in DOMAIN Upper THEN Upper[c] ELSE c

\* OsStr::eq_ignore_ascii_case
eq_ignore_ascii_case(a, b) ==
  /\ Len(a) = Len(b)
  /\ \A i \in 1..Len(a) : to_ascii_lowercase(a[i]) = to_ascii_lowercase(b[i])

\* u64::to_string
RECURSIVE u64_to_string(_)
u64_to_string(n) ==
  LET digit == <<"0", "1", "2", "3", "4", "5", "6", "7", "8", "9">>[(n % 10) + 1]
  IN  IF n < 10 THEN <<digit>> ELSE u64_to_string(n \div 10) \o <<digit>>

\* ------------------------------------------------- results and file parts
ErrMessage(msg) == [kind |-> "err", text |-> <<>>, err |-> msg]
Panic == [kind |-> "panic", text |-> <<>>, err |-> <<>>]
Part(file_name) == [file_name |-> file_name, mime |-> "application/octet-stream"]

\* _get_streamed_body: the error for a path that does not exist, else the body
\* of the opened file
_get_streamed_body(path) ==
  IF ~exists(path) THEN Err("Image not found") ELSE Ok(path)

\* create_file_upload_part: path.to_str().unwrap() panics on a path that is no
\* UTF-8, before the path is looked at; then the body, then the part
create_file_upload_part(path) ==
  IF is_none(to_str(path)) THEN Panic
  ELSE LET streamed_body == _get_streamed_body(path) IN
       IF streamed_body.kind = "err" THEN streamed_body
       ELSE Ok(Part(unwrap(to_str(path))))

\* ------------------------------------------------------ request, response
\* the request could not be sent, or no response came
SendFailed == [status |-> 0, chunks |-> <<>>, end |-> "err"]

\* Response::json::<OpenAIError>(): an object with the `error` member, whose
\* message is a text
json_OpenAIError(r) ==
  LET body == join(r.chunks) IN
  IF r.end = "err" THEN [ok |-> FALSE, message |-> <<>>, err |-> "transport"]
  ELSE IF /\ Len(body) >= 3
          /\ body[1] = T_OPEN
          /\ body[Len(body)] = T_CLOSE
          /\ \E i \in 2..(Len(body) - 1) : body[i].k = "error" /\ is_some(body[i].content)
       THEN [ok |-> TRUE,
             message |-> unwrap(body[CHOOSE i \in 2..(Len(body) - 1) : body[i].k = "error"].content),
             err |-> ""]
       ELSE [ok |-> FALSE, message |-> <<>>, err |-> "decode"]

\* a check that passes every response on
handle_api_errors_lenient(resp) == Ok(resp)

\* handle_api_errors: the response itself when the status is a success, else
\* the error made of the message of the decoded OpenAIError
handle_api_errors(resp) ==
  IF is_success(resp.status) THEN Ok(resp)
  ELSE LET err_resp == json_OpenAIError(resp) IN
       IF err_resp.ok THEN ErrMessage(err_resp.message) ELSE Err(err_resp.err)

\* the members of a JSON object made only of members of the kind the type takes
members(r, kind) ==
  LET body == join(r.chunks) IN
  IF r.end = "err" THEN [ok |-> FALSE, items |-> <<>>, err |-> "transport"]
  ELSE IF /\ Len(body) >= 2
          /\ body[1] = T_OPEN
          /\ body[Len(body)] = T_CLOSE
          /\ \A i \in 2..(Len(body) - 1) : body[i].k = kind
       THEN [ok |-> TRUE, items |-> SubSeq(body, 2, Len(body) - 1), err |-> ""]
       ELSE [ok |-> FALSE, items |-> <<>>, err |-> "decode"]

\* the end every operation shares: send, handle_api_errors, decode into the
\* members of a well-formed body
exchange(r, kind) ==
  IF r = SendFailed THEN Err("transport")
  ELSE LET handled == handle_api_errors(r) IN
       IF handled.kind = "err" THEN handled
       ELSE LET value == members(handled.text, kind) IN
            IF value.ok THEN Ok(value.items) ELSE Err(value.err)

\* serde's Serialize with skip_serializing_if = "Option::is_none" on every field:
\* the keys of the present fields with their values
skip_none(cfg) == [key \in {k \in DOMAIN cfg : is_some(cfg[k])} |-> unwrap(cfg[key])]

\* ------------------------------------------------------------------ images
\* one element of `data` in an ImageResponse: ImageData {url, b64_json}
ImageTok(url, b64_json) == [k |-> "image", index |-> 0, content |-> <<url, b64_json>>]

\* ResponseDataType::to_string
ResponseDataType_to_string(t) == IF t = "Url" THEN "url" ELSE "b64_json"

\* Size::to_string
Size_to_string(size) == u64_to_string(size[1]) \o <<"x">> \o u64_to_string(size[2])

is_valid_size(size) ==
  size \in {Size_to_string(<<256, 256>>), Size_to_string(<<512, 512>>), Size_to_string(<<1024, 1024>>)}

is_valid_response_format(response_format) == response_format \in {"url", "b64_json"}

is_valid_n(n) == 1 <= n /\ n <= 10

\* _parse_response: of each element the url when the format is "url", else the
\* b64_json; elements without it are dropped
RECURSIVE _parse_response(_, _)
_parse_response(cfg, data) ==
  IF Len(data) = 0 THEN <<>>
  ELSE LET d == Head(data).content
           pick == IF cfg.response_format = Some("url") THEN d[1] ELSE d[2]
       IN  pick \o _parse_response(cfg, Tail(data))

\* the answer of an image endpoint, through _parse_response when it decodes
image_response(cfg, r) ==
  LET image_response_ == exchange(r, "image")
  IN  IF image_response_.kind = "ok" THEN Ok(_parse_response(cfg, image_response_.text))
      ELSE image_response_

\* an image operation has run: what it sent, was answered and returned
Done(op, prompt, path, mask, cfg, request, r, result) ==
  /\ image' = cfg
  /\ last' = [op |-> op, text |-> prompt, flag |-> FALSE, num |-> 0, path |-> path, mask |-> mask]
  /\ pre' = image
  /\ sent' = request
  /\ got' = IF request = <<>> THEN NoRes ELSE r
  /\ ret' = result
  /\ stdout' = <<>>
  /\ UNCHANGED <<config, disable_live_stream, pc, frame, res, script, chat_loop,
                 env, api_key, exit_status, audio, files, serde>>

\* _make_file_upload_request: the parts of the image and of the mask, the
\* texts of the present fields, the request and its answer
_make_file_upload_request(url, cfg, r) ==
  LET file_part_stream == create_file_upload_part(unwrap(cfg.image))
      mask_part_stream == IF is_some(cfg.mask) THEN create_file_upload_part(unwrap(cfg.mask)) ELSE Ok(<<>>)
      texts == {k \in {"prompt", "response_format", "size", "n", "user"} : is_some(cfg[k])}
      keys == {"image"} \cup texts \cup (IF is_some(cfg.mask) THEN {"mask"} ELSE {})
      form == [key \in keys |->
                 CASE key = "image" -> file_part_stream.text
                   [] key = "mask" -> mask_part_stream.text
                   [] key = "n" -> u64_to_string(unwrap(cfg.n))
                   [] OTHER -> unwrap(cfg[key])]
  IN  IF file_part_stream.kind # "ok" THEN [request |-> <<>>, result |-> file_part_stream]
      ELSE IF mask_part_stream.kind # "ok" THEN [request |-> <<>>, result |-> mask_part_stream]
      ELSE [request |-> <<[url |-> url, form |-> form]>>,
            result |-> image_response(cfg, r)]

image_set_response_format(response_format) ==
  /\ pc = "idle"
  /\ image' = [image EXCEPT !.response_format = Some(ResponseDataType_to_string(response_format))]
  /\ last' = Call("set_response_format", <<>>, FALSE, 0)
  /\ Silent
  /\ UNCHANGED <<config, disable_live_stream, script, env, api_key, exit_status, audio, files, serde>>

set_max_images(number_of_images) ==
  /\ pc = "idle"
  /\ image' = [image EXCEPT !.n = Some(number_of_images)]
  /\ last' = Call("set_max_images", <<>>, FALSE, number_of_images)
  /\ Silent
  /\ UNCHANGED <<config, disable_live_stream, script, env, api_key, exit_status, audio, files, serde>>

set_size(size) ==
  /\ pc = "idle"
  /\ image' = [image EXCEPT !.size = Some(Size_to_string(size))]
  /\ last' = Call("set_size", <<>>, FALSE, 0)
  /\ Silent
  /\ UNCHANGED <<config, disable_live_stream, script, env, api_key, exit_status, audio, files, serde>>

image_with_config(cfg) ==
  /\ pc = "idle"
  /\ image' = cfg
  /\ last' = Call("with_config", <<>>, FALSE, 0)
  /\ Silent
  /\ UNCHANGED <<config, disable_live_stream, script, env, api_key, exit_status, audio, files, serde>>

\* a create that posts the configuration as the call before left it
image_create_keeping(prompt, r) ==
  /\ pc = "idle"
  /\ LET cfg == [image EXCEPT !.prompt = Some(prompt)]
     IN  Done("create", prompt, None, None, cfg,
              <<[url |-> "images/generations", json |-> skip_none(cfg)]>>, r,
              image_response(cfg, r))

\* create: the prompt set, image and mask dropped, the configuration posted
image_create(prompt, r) ==
  /\ pc = "idle"
  /\ LET cfg == [image EXCEPT !.prompt = Some(prompt), !.image = None, !.mask = None]
     IN  Done("create", prompt, None, None, cfg,
              <<[url |-> "images/generations", json |-> skip_none(cfg)]>>, r,
              image_response(cfg, r))

\* edit: image, mask (when one is given) and prompt set; n, size and
\* response_format replaced by their defaults when not valid; then the upload
edit(prompt, image_file_path, mask, r) ==
  /\ pc = "idle"
  /\ LET cfg == [image EXCEPT
                   !.image = Some(image_file_path),
                   !.mask = IF is_some(mask) THEN mask ELSE @,
                   !.prompt = Some(prompt),
                   !.n = IF is_some(@) /\ ~is_valid_n(unwrap(@)) THEN Some(DEFAULT_N) ELSE @,
                   !.size = IF is_some(@) /\ ~is_valid_size(unwrap(@)) THEN Some(DEFAULT_SIZE) ELSE @,
                   !.response_format = IF is_some(@) /\ ~is_valid_response_format(unwrap(@))
                                       THEN Some(DEFAULT_RESPONSE_FORMAT) ELSE @]
         up == _make_file_upload_request("images/edits", cfg, r)
     IN  Done("edit", prompt, Some(image_file_path), mask, cfg, up.request, r, up.result)

\* variation: image set, prompt and mask dropped; then the upload
variation(image_file_path, r) ==
  /\ pc = "idle"
  /\ LET cfg == [image EXCEPT !.image = Some(image_file_path), !.prompt = None, !.mask = None]
         up == _make_file_upload_request("images/variations", cfg, r)
     IN  Done("variation", <<>>, Some(image_file_path), None, cfg, up.request, r, up.result)

\* what the image endpoints may answer
ImageResponses ==
  { [status |-> 200, chunks |-> <<<<T_OPEN, ImageTok(Some("u"), None), T_CLOSE>>>>, end |-> "eof"],
    [status |-> 200, chunks |-> <<<<T_X>>>>, end |-> "eof"],
    [status |-> 400, chunks |-> <<ErrorBody>>, end |-> "eof"],
    SendFailed }

ImagePaths == {IMG, GONE}
MaskPaths == {None, Some(MASK), Some(GONE)}
ImageCounts == {3, 11}
Sizes == {<<256, 256>>, <<100, 100>>}
ImageConfigs == {[Image_default EXCEPT !.response_format = Some("png"), !.user = Some("u")]}

NextImage ==
  \/ \E t \in {"Url", "Base64Json"} : image_set_response_format(t)
  \/ \E n \in ImageCounts : set_max_images(n)
  \/ \E z \in Sizes : set_size(z)
  \/ \E c \in ImageConfigs : image_with_config(c)
  \/ \E r \in ImageResponses : image_create(<<"p">>, r)
  \/ \E f \in ImagePaths, m \in MaskPaths, r \in ImageResponses : edit(<<"p">>, f, m, r)
  \/ \E f \in ImagePaths, r \in ImageResponses : variation(f, r)

SpecImage == Init /\ [][NextImage]_vars

\* ------------------------------------------------- the other operations
\* one member of the object a JSON endpoint answers with
DataTok(v) == [k |-> "data", index |-> 0, content |-> Some(v)]

\* one line of the body of files/{id}/content that is a prompt/completion object
LineTok(v) == [k |-> "line", index |-> 0, content |-> Some(v)]

\* the body of a failed request: {"error": {"message": msg, "type": ..}}
StructuredError(msg) == <<T_OPEN, ErrorTok(msg), T_CLOSE>>

\* f64::to_string of a temperature kept in tenths
f64_to_string(t) ==
  IF t % 10 = 0 THEN u64_to_string(t \div 10)
  ELSE u64_to_string(t \div 10) \o <<".">> \o u64_to_string(t % 10)

\* file.split('.').last(): what follows the last dot, the whole name without one
split_last(file) ==
  LET dots == {i \in 1..Len(file) : file[i] = "."} IN
  IF dots = {} THEN file
  ELSE SubSeq(file, (CHOOSE i \in dots : \A j \in dots : j <= i) + 1, Len(file))

\* FileType::try_from of the names Audio::get_supported_file_types lists
SupportedFileTypes ==
  { <<"m", "p", "3">>, <<"m", "p", "4">>, <<"m", "p", "e", "g">>, <<"m", "p", "g", "a">>,
    <<"m", "4", "a">>, <<"w", "a", "v">>, <<"w", "e", "b", "m">> }

\* Audio::is_file_type_supported
is_file_type_supported(file_name) == split_last(file_name) \in SupportedFileTypes

ISO_639_1_CODES ==
  { "ab", "aa", "af", "ak", "sq", "am", "ar", "an", "hy", "as", "av", "ae", "ay", "az", "bm",
    "ba", "eu", "be", "bn", "bh", "bi", "bs", "br", "bg", "my", "ca", "ch", "ce", "ny", "zh",
    "cv", "kw", "co", "cr", "hr", "cs", "da", "dv", "nl", "dz", "en", "eo", "et", "ee", "fo",
    "fj", "fi", "fr", "ff", "gl", "ka", "de", "el", "gn", "gu", "ht", "ha", "he", "hz", "hi",
    "ho", "hu", "ia", "id", "ie", "ga", "ig", "ik", "io", "is", "it", "iu", "ja", "jv", "kl",
    "kn", "kr", "ks", "kk", "km", "ki", "rw", "ky", "kv", "kg", "ko", "ku", "kj", "la", "lb",
    "lg", "li", "ln", "lo", "lt", "lu", "lv", "gv", "mk", "mg", "ms", "ml", "mt", "mi", "mr",
    "mh", "mn", "na", "nv", "nd", "ne", "ng", "nb", "nn", "no", "ii", "nr", "oc", "oj", "cu",
    "om", "or", "os", "pa", "pi", "fa", "pl", "ps", "pt", "qu", "rm", "rn", "ro", "ru", "sa",
    "sc", "sd", "se", "sm", "sg", "sr", "gd", "sn", "si", "sk", "sl", "so", "st", "es", "su",
    "sw", "ss", "sv", "ta", "te", "th", "ti", "to", "tn", "ts", "tk", "tr", "tw", "ug", "uk",
    "ur", "uz", "ve", "vi", "vo", "wa", "cy", "wo", "fy", "xh", "yi", "yo", "za", "zu" }

\* Audio::is_valid_language
is_valid_language(language) == language \in ISO_639_1_CODES

\* ResponseFormat::to_string
ResponseFormat_to_string(f) ==
  CASE f = "Json" -> "json"
    [] f = "Text" -> "text"
    [] f = "Srt" -> "srt"
    [] f = "VerboseJson" -> "verbose_json"
    [] f = "Vtt" -> "vtt"

\* a check of the extension that takes every file
any_extension(path_str) == TRUE

\* the check of the extension in upload: there is one and it is jsonl, in any case
is_jsonl(path_str) ==
  LET ext == extension(path_str)
  IN  is_some(ext) /\ eq_ignore_ascii_case(unwrap(ext), <<"j", "s", "o", "n", "l">>)

\* an operation of the files, audio, embedding, fine-tune or moderation client
\* has run: the configurations it leaves, what it sent, was answered and returned
OpDone(op, text, path, fcfg, acfg, request, r, result) ==
  /\ files' = fcfg
  /\ audio' = acfg
  /\ last' = [op |-> op, text |-> text, flag |-> FALSE, num |-> 0, path |-> path, mask |-> None]
  /\ pre' = [files |-> files, audio |-> audio]
  /\ sent' = request
  /\ got' = IF request = <<>> THEN NoRes ELSE r
  /\ ret' = result
  /\ stdout' = <<>>
  /\ pc' = IF result.kind = "panic" THEN "panicked" ELSE pc
  /\ UNCHANGED <<config, disable_live_stream, frame, res, script, chat_loop,
                 env, api_key, exit_status, image, serde>>

\* an operation that sends one request without a file and decodes the answer
Plain(op, text, request, r) ==
  OpDone(op, text, None, files, audio, <<request>>, r,
         exchange(r, "data"))

\* str::lines: the pieces between newlines, without the empty piece after a
\* final newline
str_lines(text) ==
  LET parts == split(text) IN
  IF parts[Len(parts)] = <<>> THEN SubSeq(parts, 1, Len(parts) - 1) ELSE parts

\* serde_json::from_str::<PromptCompletion>: a line is one object and nothing else
is_prompt_completion(line) == Len(line) = 1 /\ line[1].k = "line"

\* a reading that keeps the lines that parse and passes over the others
lines_from_str_skipping(r) ==
  LET lines == SelectSeq(str_lines(join(r.chunks)), is_prompt_completion) IN
  IF r.end = "err" THEN Err("transport")
  ELSE Ok([i \in 1..Len(lines) |-> lines[i][1]])

\* the body read as text, each of its lines parsed as a prompt/completion object
\* and the results collected into one Result: the first failure is the result
lines_from_str(r) ==
  LET lines == str_lines(join(r.chunks)) IN
  IF r.end = "err" THEN Err("transport")
  ELSE IF \A i \in 1..Len(lines) : is_prompt_completion(lines[i])
       THEN Ok([i \in 1..Len(lines) |-> lines[i][1]])
  ELSE Err("decode")

files_list(r) ==
  /\ pc = "idle"
  /\ Plain("files.list", <<>>, [method |-> "GET", url |-> <<"files">>], r)

files_retrieve(file_id, r) ==
  /\ pc = "idle"
  /\ Plain("files.retrieve", file_id, [method |-> "GET", url |-> <<"files", file_id>>], r)

retrieve_content(file_id, r) ==
  /\ pc = "idle"
  /\ OpDone("files.retrieve_content", file_id, None, files, audio,
            <<[method |-> "GET", url |-> <<"files", file_id, "content">>]>>, r,
            IF r = SendFailed THEN Err("transport")
            ELSE LET handled == handle_api_errors(r) IN
                 IF handled.kind = "err" THEN handled ELSE lines_from_str(handled.text))

files_delete(file_id, r) ==
  /\ pc = "idle"
  /\ Plain("files.delete", file_id, [method |-> "DELETE", url |-> <<"files", file_id>>], r)

\* upload: the path must be a regular file, UTF-8 and a .jsonl; only then the
\* configuration takes it, the part is made and the form sent
upload(file, r) ==
  /\ pc = "idle"
  /\ LET meta == metadata(file)
         path_str == to_str(file)
         file_part_stream == create_file_upload_part(file)
     IN  IF ~meta.ok THEN OpDone("files.upload", <<>>, Some(file), files, audio, <<>>, r, Err("No such file or directory"))
         ELSE IF ~meta.is_file THEN OpDone("files.upload", <<>>, Some(file), files, audio, <<>>, r, Err("Path is not a file"))
         ELSE IF is_none(path_str) THEN OpDone("files.upload", <<>>, Some(file), files, audio, <<>>, r, Err("Path is not valid UTF-8"))
         ELSE IF ~is_jsonl(unwrap(path_str)) THEN OpDone("files.upload", <<>>, Some(file), files, audio, <<>>, r, Err("File must be a .jsonl file"))
         ELSE LET cfg == [files EXCEPT !.file = path_str] IN
              IF file_part_stream.kind # "ok" THEN OpDone("files.upload", <<>>, Some(file), cfg, audio, <<>>, r, file_part_stream)
              ELSE OpDone("files.upload", <<>>, Some(file), cfg, audio,
                          <<[method |-> "POST", url |-> <<"files">>,
                             form |-> [file |-> file_part_stream.text, purpose |-> "fine-tune"]]>>, r,
                          exchange(r, "data"))

\* create_file_upload_part called by the user of the library
file_part(path) ==
  /\ pc = "idle"
  /\ OpDone("create_file_upload_part", <<>>, Some(path), files, audio, <<>>, NoRes,
            create_file_upload_part(path))

embed(prompt, r) ==
  /\ pc = "idle"
  /\ Plain("embed", prompt,
           [method |-> "POST", url |-> <<"embeddings">>,
            json |-> [model |-> "text-embedding-ada-002", input |-> prompt]], r)

moderate(input, r) ==
  /\ pc = "idle"
  /\ Plain("moderate", input,
           [method |-> "POST", url |-> <<"moderations">>, json |-> [input |-> input]], r)

fine_tune_create(training_file, r) ==
  /\ pc = "idle"
  /\ Plain("fine_tune.create", training_file,
           [method |-> "POST", url |-> <<"fine-tunes">>, json |-> [training_file |-> training_file]], r)

fine_tune_list(r) ==
  /\ pc = "idle"
  /\ Plain("fine_tune.list", <<>>, [method |-> "GET", url |-> <<"fine-tunes">>], r)

fine_tune_retrieve(fine_tune_id, r) ==
  /\ pc = "idle"
  /\ Plain("fine_tune.retrieve", fine_tune_id,
           [method |-> "GET", url |-> <<"fine-tunes", fine_tune_id>>], r)

cancel(fine_tune_id, r) ==
  /\ pc = "idle"
  /\ Plain("fine_tune.cancel", fine_tune_id,
           [method |-> "POST", url |-> <<"fine-tunes", fine_tune_id, "cancel">>], r)

list_events(fine_tune_id, r) ==
  /\ pc = "idle"
  /\ Plain("fine_tune.list_events", fine_tune_id,
           [method |-> "GET", url |-> <<"fine-tunes", fine_tune_id, "events">>], r)

delete_model(m, r) ==
  /\ pc = "idle"
  /\ Plain("fine_tune.delete_model", m, [method |-> "DELETE", url |-> <<"models", m>>], r)

\* ------------------------------------------------------------------- audio
audio_builder(op, cfg) ==
  /\ audio' = cfg
  /\ last' = Call(op, <<>>, FALSE, 0)
  /\ Silent
  /\ UNCHANGED <<config, disable_live_stream, script, env, api_key, exit_status, image, files, serde>>

audio_set_model(m) ==
  /\ pc = "idle"
  /\ audio_builder("audio.set_model", [audio EXCEPT !.model = m])

set_prompt(prompt) ==
  /\ pc = "idle"
  /\ audio_builder("audio.set_prompt", [audio EXCEPT !.prompt = Some(prompt)])

audio_set_response_format(format) ==
  /\ pc = "idle"
  /\ audio_builder("audio.set_response_format", [audio EXCEPT !.response_format = Some(format)])

audio_with_config(cfg) ==
  /\ pc = "idle"
  /\ audio_builder("audio.with_config", cfg)

\* _set_file: the path must be a regular file and UTF-8; the configuration takes
\* it, and then its type is looked at
_set_file(cfg, file) ==
  LET meta == metadata(file)
      path_str == to_str(file)
  IN  IF ~meta.ok THEN [cfg |-> cfg, result |-> Err("No such file or directory")]
      ELSE IF ~meta.is_file THEN [cfg |-> cfg, result |-> Err("Path is not a file")]
      ELSE IF is_none(path_str) THEN [cfg |-> cfg, result |-> Err("Path is not valid UTF-8")]
      ELSE LET set == [cfg EXCEPT !.file = unwrap(path_str)] IN
           IF ~is_file_type_supported(set.file)
           THEN [cfg |-> set, result |-> Err("Invalid audio file type")]
           ELSE [cfg |-> set, result |-> Ok(<<>>)]

\* _sanity_checks: a temperature outside 0..1 becomes 1; the model must be
\* whisper-1 and the language, when there is one, an ISO 639-1 code
_sanity_checks(cfg) ==
  LET clamped == [cfg EXCEPT !.temperature =
                    IF is_some(@) /\ ~is_valid_temperature(unwrap(@), 10) THEN Some(10) ELSE @]
  IN  IF clamped.model # AUDIO_DEFAULT_MODEL THEN [cfg |-> clamped, result |-> Err("Invalid model")]
      ELSE IF is_some(clamped.language) /\ ~is_valid_language(unwrap(clamped.language))
           THEN [cfg |-> clamped, result |-> Err("Invalid language code")]
      ELSE [cfg |-> clamped, result |-> Ok(<<>>)]

\* _form_builder: the part of the file and the texts of the present fields
_form_builder(cfg) ==
  LET file_part_stream == create_file_upload_part(cfg.file)
      keys == {"file", "model"} \cup {k \in {"prompt", "response_format", "temperature"} : is_some(cfg[k])}
  IN  IF file_part_stream.kind # "ok" THEN [form |-> <<>>, result |-> file_part_stream]
      ELSE [form |-> [key \in keys |->
                        CASE key = "file" -> file_part_stream.text
                          [] key = "model" -> cfg.model
                          [] key = "prompt" -> unwrap(cfg.prompt)
                          [] key = "response_format" -> ResponseFormat_to_string(unwrap(cfg.response_format))
                          [] key = "temperature" -> f64_to_string(unwrap(cfg.temperature))],
            result |-> Ok(<<>>)]

\* the two audio operations: the checks, the form (with the language when
\* with_language holds and there is one), the request and its answer
audio_operation(op, url, audio_file, with_language, r) ==
  LET set == _set_file(audio, audio_file)
      checked == _sanity_checks(set.cfg)
      cfg == IF with_language THEN checked.cfg ELSE [checked.cfg EXCEPT !.language = None]
      built == _form_builder(cfg)
      form == IF is_some(cfg.language)
              THEN built.form @@ [key \in {"language"} |-> unwrap(cfg.language)]
              ELSE built.form
  IN  IF set.result.kind # "ok" THEN OpDone(op, <<>>, Some(audio_file), files, set.cfg, <<>>, r, set.result)
      ELSE IF checked.result.kind # "ok" THEN OpDone(op, <<>>, Some(audio_file), files, checked.cfg, <<>>, r, checked.result)
      ELSE IF built.result.kind # "ok" THEN OpDone(op, <<>>, Some(audio_file), files, cfg, <<>>, r, built.result)
      ELSE OpDone(op, <<>>, Some(audio_file), files, cfg,
                  <<[method |-> "POST", url |-> url, form |-> form]>>, r,
                  exchange(r, "data"))

transcribe(audio_file, r) ==
  /\ pc = "idle"
  /\ audio_operation("transcribe", <<"audio", "transcriptions">>, audio_file, TRUE, r)

translate(audio_file, r) ==
  /\ pc = "idle"
  /\ audio_operation("translate", <<"audio", "translations">>, audio_file, FALSE, r)

\* ------------------------------------------------ inputs of the operations
ErrorMessages == {<<"e">>, <<"n", "o">>}

\* what an endpoint may answer: an object, a body that is no JSON, an error
\* with a structured body, an error with another body, no answer
OpResponses ==
  { [status |-> 200, chunks |-> <<<<T_OPEN, DataTok("v"), T_CLOSE>>>>, end |-> "eof"],
    [status |-> 200, chunks |-> <<<<T_X>>>>, end |-> "eof"],
    [status |-> 500, chunks |-> <<<<T_X>>>>, end |-> "eof"],
    SendFailed }
  \cup { [status |-> 404, chunks |-> <<StructuredError(msg)>>, end |-> "eof"] : msg \in ErrorMessages }

\* what files/{id}/content may answer
ContentResponses ==
  { [status |-> 200, chunks |-> <<b>>, end |-> e] :
      b \in { <<LineTok("a"), T_NL, LineTok("b"), T_NL>>,
              <<LineTok("b"), T_NL, LineTok("a")>>,
              <<LineTok("a"), T_NL, T_X, T_NL>>,
              <<LineTok("a"), T_NL, T_NL, LineTok("b"), T_NL>>,
              <<LineTok("a"), LineTok("b"), T_NL>>,
              <<T_NL>>,
              <<>> },
      e \in {"eof", "err"} }
  \cup { SendFailed }
  \cup { [status |-> 404, chunks |-> <<StructuredError(msg)>>, end |-> "eof"] : msg \in ErrorMessages }

UploadPaths == {JSONL, JSONL_UPPER, TXT, NO_EXT, DOT_JSONL, DIR_JSONL, GONE_JSONL, BAD_JSONL, GONE}
PartPaths == {IMG, GONE, BAD_GONE, BAD_JSONL}
AudioPaths == {WAV, TXT, GONE, DIR_JSONL, BAD_JSONL}
AudioConfigs ==
  { [Audio_default EXCEPT !.language = Some("de"), !.temperature = Some(15)],
    [Audio_default EXCEPT !.language = Some("xx")] }

NextOps ==
  \/ \E r \in OpResponses : files_list(r)
  \/ \E r \in OpResponses : files_retrieve("id", r)
  \/ \E r \in ContentResponses : retrieve_content("id", r)
  \/ \E r \in OpResponses : files_delete("id", r)
  \/ \E f \in UploadPaths, r \in OpResponses : upload(f, r)
  \/ \E p \in PartPaths : file_part(p)
  \/ \E r \in OpResponses : embed(<<"p">>, r)
  \/ \E r \in OpResponses : moderate(<<"p">>, r)
  \/ \E r \in OpResponses : fine_tune_create("id", r)
  \/ \E r \in OpResponses : fine_tune_list(r)
  \/ \E r \in OpResponses : fine_tune_retrieve("id", r)
  \/ \E r \in OpResponses : cancel("id", r)
  \/ \E r \in OpResponses : list_events("id", r)
  \/ \E r \in OpResponses : delete_model("m", r)
  \/ \E f \in AudioPaths, r \in OpResponses : transcribe(f, r)
  \/ \E f \in AudioPaths, r \in OpResponses : translate(f, r)
  \/ \E r \in ImageResponses : image_create(<<"p">>, r)
  \/ \E f \in ImagePaths, r \in ImageResponses : edit(<<"p">>, f, None, r)
  \/ \E r \in ImageResponses : variation(IMG, r)

SpecOps == Init /\ [][NextOps]_vars

NextAudio ==
  \/ audio_set_model("whisper-2")
  \/ set_prompt(<<"p">>)
  \/ audio_set_response_format("Text")
  \/ \E c \in AudioConfigs : audio_with_config(c)
  \/ \E f \in AudioPaths, r \in OpResponses : transcribe(f, r)
  \/ \E f \in AudioPaths, r \in OpResponses : translate(f, r)

SpecAudio == Init /\ [][NextAudio]_vars

\* ------------------------------------------------------------ the builders
\* configurations handed to with_config: the default one and another
ChatConfigs == { Chat_default, [Chat_default EXCEPT !.messages = <<MessageNew("user", <<"q">>)>>] }
ImageUser == { Image_default, [Image_default EXCEPT !.user = Some("u")] }
AudioLanguage == { Audio_default, [Audio_default EXCEPT !.language = Some("de")] }

\* a program that sets up its clients, each a value of its own: the chat client
\* while the image and audio clients are as constructed, the image and audio
\* clients, before and after a request, while the chat client is
NextBuilders ==
  \/ image = Image_default /\ audio = Audio_default /\ Len(messages) <= 1 /\ set_primer(<<"p">>)
  \/ image = Image_default /\ audio = Audio_default /\ \E m \in MessageLists : set_messages(m)
  \/ image = Image_default /\ audio = Audio_default /\ clear_state
  \/ image = Image_default /\ audio = Audio_default /\ \E m \in Models : set_model(m)
  \/ image = Image_default /\ audio = Audio_default /\ \E n \in MaxTokens : set_max_tokens(n)
  \/ image = Image_default /\ audio = Audio_default /\ set_temperature(5)
  \/ image = Image_default /\ audio = Audio_default /\ set_stream_responses(FALSE)
  \/ image = Image_default /\ audio = Audio_default /\ disable_stdout
  \/ image = Image_default /\ audio = Audio_default /\ \E c \in ChatConfigs : with_config(c)
  \/ <<config, disable_live_stream>> = <<<<Chat_default.model, Chat_default.messages, Chat_default.temperature, Chat_default.stream, Chat_default.max_tokens>>, FALSE>> /\ image_set_response_format("Base64Json")
  \/ <<config, disable_live_stream>> = <<<<Chat_default.model, Chat_default.messages, Chat_default.temperature, Chat_default.stream, Chat_default.max_tokens>>, FALSE>> /\ set_max_images(3)
  \/ <<config, disable_live_stream>> = <<<<Chat_default.model, Chat_default.messages, Chat_default.temperature, Chat_default.stream, Chat_default.max_tokens>>, FALSE>> /\ set_size(<<256, 256>>)
  \/ <<config, disable_live_stream>> = <<<<Chat_default.model, Chat_default.messages, Chat_default.temperature, Chat_default.stream, Chat_default.max_tokens>>, FALSE>> /\ \E c \in ImageUser : image_with_config(c)
  \/ <<config, disable_live_stream>> = <<<<Chat_default.model, Chat_default.messages, Chat_default.temperature, Chat_default.stream, Chat_default.max_tokens>>, FALSE>> /\ audio_set_model("whisper-2")
  \/ <<config, disable_live_stream>> = <<<<Chat_default.model, Chat_default.messages, Chat_default.temperature, Chat_default.stream, Chat_default.max_tokens>>, FALSE>> /\ set_prompt(<<"p">>)
  \/ <<config, disable_live_stream>> = <<<<Chat_default.model, Chat_default.messages, Chat_default.temperature, Chat_default.stream, Chat_default.max_tokens>>, FALSE>> /\ audio_set_response_format("Text")
  \/ <<config, disable_live_stream>> = <<<<Chat_default.model, Chat_default.messages, Chat_default.temperature, Chat_default.stream, Chat_default.max_tokens>>, FALSE>> /\ \E c \in AudioLanguage : audio_with_config(c)
  \/ <<config, disable_live_stream>> = <<<<Chat_default.model, Chat_default.messages, Chat_default.temperature, Chat_default.stream, Chat_default.max_tokens>>, FALSE>> /\ \E r \in ImageResponses : image_create(<<"p">>, r)

SpecBuilders == Init /\ [][NextBuilders]_vars

\* ------------------------------------------------- serialization to JSON
\* a JSON value
JNull == [null |-> TRUE]
JStr(s) == [str |-> s]
JNum(n) == [num |-> n]
JBool(b) == [bool |-> b]
JArr(xs) == [arr |-> xs]
JObj(o) == [obj |-> o]

\* a field of a struct: its type, whether it is an Option, and whether it has
\* #[serde(skip_serializing_if = "Option::is_none")]
Plainly(kind) == [kind |-> kind, optional |-> FALSE, skip |-> FALSE]
Skipped(kind) == [kind |-> kind, optional |-> TRUE, skip |-> TRUE]
Nullable(kind) == [kind |-> kind, optional |-> TRUE, skip |-> FALSE]

Function_fields ==
  ("name" :> Plainly("String")) @@ ("description" :> Nullable("String")) @@ ("parameters" :> Plainly("String"))

\* the structs that derive Serialize and Deserialize, field by field
Fields(ty) ==
  CASE ty = "Chat" ->
         ("model" :> Plainly("String")) @@ ("messages" :> Plainly("Vec<Message>"))
         @@ ("functions" :> Skipped("Vec<Function>")) @@ ("function_call" :> Skipped("String"))
         @@ ("temperature" :> Skipped("f64")) @@ ("top_p" :> Skipped("f64")) @@ ("n" :> Skipped("i64"))
         @@ ("stream" :> Skipped("bool")) @@ ("stop" :> Skipped("String")) @@ ("max_tokens" :> Skipped("u64"))
         @@ ("presence_penalty" :> Skipped("f32")) @@ ("frequency_penalty" :> Skipped("f32"))
         @@ ("logit_bias" :> Skipped("HashMap")) @@ ("user" :> Skipped("String"))
    [] ty = "Message" ->
         ("role" :> Plainly("String")) @@ ("content" :> Plainly("String"))
         @@ ("name" :> Skipped("String")) @@ ("function_call" :> Skipped("FunctionCall"))
    [] ty = "FunctionCall" ->
         ("name" :> Plainly("String")) @@ ("arguments" :> Plainly("String"))
    [] ty = "Function" -> Function_fields
    [] ty = "Image" ->
         ("prompt" :> Skipped("String")) @@ ("n" :> Skipped("u64")) @@ ("size" :> Skipped("String"))
         @@ ("response_format" :> Skipped("String")) @@ ("user" :> Skipped("String"))
         @@ ("image" :> Skipped("String")) @@ ("mask" :> Skipped("String"))
    [] ty = "Embedding" ->
         ("model" :> Plainly("String")) @@ ("input" :> Plainly("InputType")) @@ ("user" :> Skipped("String"))
    [] ty = "Audio" ->
         ("file" :> Plainly("String")) @@ ("model" :> Plainly("String")) @@ ("prompt" :> Skipped("String"))
         @@ ("response_format" :> Skipped("ResponseFormat")) @@ ("temperature" :> Skipped("f64"))
         @@ ("language" :> Skipped("String"))
    [] ty = "Files" ->
         ("file" :> Skipped("String")) @@ ("purpose" :> Skipped("String")) @@ ("file_id" :> Skipped("String"))
    [] ty = "FineTune" ->
         ("training_file" :> Plainly("String")) @@ ("validation_file" :> Skipped("String"))
         @@ ("model" :> Skipped("String")) @@ ("n_epochs" :> Skipped("u64")) @@ ("batch_size" :> Skipped("u64"))
         @@ ("learning_rate_multiplier" :> Skipped("f64")) @@ ("prompt_loss_weight" :> Skipped("f64"))
         @@ ("compute_classification_metrics" :> Skipped("bool"))
         @@ ("classification_n_classes" :> Skipped("u64"))
         @@ ("classification_positive_class" :> Skipped("String"))
         @@ ("classification_betas" :> Skipped("Vec<f64>")) @@ ("suffix" :> Skipped("String"))
    [] ty = "Moderation" -> ("input" :> Plainly("String"))

StructTypes ==
  {"Chat", "Message", "FunctionCall", "Function", "Image", "Embedding", "Audio", "Files", "FineTune", "Moderation"}

Numbers == {"f64", "f32", "i64", "u64"}

\* the element type of a Vec
ElementOf(kind) ==
  CASE kind = "Vec<Message>" -> "Message"
    [] kind = "Vec<Function>" -> "Function"
    [] kind = "Vec<f64>" -> "f64"

\* the variants of embeddings::InputType
SingleString(s) == [single |-> s]
MultipleStrings(xs) == [strings |-> xs]
MultipleTokens(ns) == [tokens |-> ns]

\* derive(Serialize): of a struct the object of its fields, an Option that is
\* None left out when the field says so and written as null otherwise; of an
\* untagged enum the content of the variant, which for a unit variant is null
RECURSIVE Serialize(_, _)
Serialize(kind, v) ==
  IF kind \in StructTypes
  THEN LET fs == Fields(kind)
           names == {n \in DOMAIN fs : ~(fs[n].optional /\ fs[n].skip /\ is_none(v[n]))}
       IN  JObj([n \in names |->
                   IF ~fs[n].optional THEN Serialize(fs[n].kind, v[n])
                   ELSE IF is_none(v[n]) THEN JNull
                   ELSE Serialize(fs[n].kind, unwrap(v[n]))])
  ELSE CASE kind = "String" -> JStr(v)
         [] kind \in Numbers -> JNum(v)
         [] kind = "bool" -> JBool(v)
         [] kind = "ResponseFormat" -> JNull
         [] kind = "HashMap" -> JObj([key \in DOMAIN v |-> JNum(v[key])])
         [] kind = "InputType" ->
              IF "single" \in DOMAIN v THEN JStr(v.single)
              ELSE IF "strings" \in DOMAIN v THEN JArr([i \in 1..Len(v.strings) |-> JStr(v.strings[i])])
              ELSE JArr([i \in 1..Len(v.tokens) |-> JNum(v.tokens[i])])
         [] OTHER -> JArr([i \in 1..Len(v) |-> Serialize(ElementOf(kind), v[i])])

Failed == [ok |-> FALSE, v |-> <<>>]
Got(v) == [ok |-> TRUE, v |-> v]

\* derive(Deserialize): of a struct every field from its key, an Option from a
\* missing key or from null as None; of an untagged enum the first variant the
\* value fits, a unit variant fitting null
RECURSIVE Deserialize(_, _)
Deserialize(kind, j) ==
  IF kind \in StructTypes
  THEN IF "obj" \notin DOMAIN j THEN Failed
       ELSE LET fs == Fields(kind)
                field(n) ==
                  IF n \notin DOMAIN j.obj THEN (IF fs[n].optional THEN Got(None) ELSE Failed)
                  ELSE IF ~fs[n].optional THEN Deserialize(fs[n].kind, j.obj[n])
                  ELSE IF "null" \in DOMAIN j.obj[n] THEN Got(None)
                  ELSE LET inner == Deserialize(fs[n].kind, j.obj[n])
                       IN  IF inner.ok THEN Got(Some(inner.v)) ELSE Failed
            IN  IF \A n \in DOMAIN fs : field(n).ok
                THEN Got([n \in DOMAIN fs |-> field(n).v])
                ELSE Failed
  ELSE CASE kind = "String" -> IF "str" \in DOMAIN j THEN Got(j.str) ELSE Failed
         [] kind \in Numbers -> IF "num" \in DOMAIN j THEN Got(j.num) ELSE Failed
         [] kind = "bool" -> IF "bool" \in DOMAIN j THEN Got(j.bool) ELSE Failed
         [] kind = "ResponseFormat" -> IF "null" \in DOMAIN j THEN Got("Json") ELSE Failed
         [] kind = "HashMap" ->
              IF "obj" \in DOMAIN j /\ \A key \in DOMAIN j.obj : "num" \in DOMAIN j.obj[key]
              THEN Got([key \in DOMAIN j.obj |-> j.obj[key].num])
              ELSE Failed
         [] kind = "InputType" ->
              IF "str" \in DOMAIN j THEN Got(SingleString(j.str))
              ELSE IF "arr" \in DOMAIN j /\ \A i \in 1..Len(j.arr) : "str" \in DOMAIN j.arr[i]
                   THEN Got(MultipleStrings([i \in 1..Len(j.arr) |-> j.arr[i].str]))
              ELSE IF "arr" \in DOMAIN j /\ \A i \in 1..Len(j.arr) : "num" \in DOMAIN j.arr[i]
                   THEN Got(MultipleTokens([i \in 1..Len(j.arr) |-> j.arr[i].num]))
              ELSE Failed
         [] OTHER ->
              IF "arr" \notin DOMAIN j THEN Failed
              ELSE LET items == [i \in 1..Len(j.arr) |-> Deserialize(ElementOf(kind), j.arr[i])]
                   IN  IF \A i \in 1..Len(items) : items[i].ok
                       THEN Got([i \in 1..Len(items) |-> items[i].v])
                       ELSE Failed

\* the values the round trip is tried on: every choice of present and absent
\* for the Options of each struct
Opt(S) == {None} \cup {Some(x) : x \in S}

FunctionCalls == [name : {"f"}, arguments : {"{}"}]
Messages == [role : {"user"}, content : {"hi"}, name : Opt({"me"}), function_call : Opt(FunctionCalls)]
Functions == [name : {"f"}, description : Opt({"does"}), parameters : {"{}"}]
InputTypes ==
  { SingleString(""), SingleString("s"), MultipleStrings(<<>>), MultipleStrings(<<"s", "t">>),
    MultipleTokens(<<>>), MultipleTokens(<<1, 2>>) }
ResponseFormats == {"Json", "Text"}

Values(ty) ==
  CASE ty = "Chat" ->
         [model : {"gpt-4"}, messages : {<<>>} \cup {<<m>> : m \in Messages},
          functions : Opt({<<>>} \cup {<<f>> : f \in Functions}), function_call : Opt({"auto"}),
          temperature : Opt({5}), top_p : Opt({1}), n : {None}, stream : Opt({TRUE}),
          stop : {None}, max_tokens : Opt({16}), presence_penalty : {None},
          frequency_penalty : {None}, logit_bias : Opt({("t" :> 1)}), user : Opt({"u"})]
    [] ty = "Message" -> Messages
    [] ty = "FunctionCall" -> FunctionCalls
    [] ty = "Function" -> Functions
    [] ty = "Image" ->
         [prompt : Opt({"p"}), n : Opt({1}), size : Opt({"256x256"}), response_format : Opt({"url"}),
          user : Opt({"u"}), image : Opt({"a.png"}), mask : Opt({"m.png"})]
    [] ty = "Embedding" -> [model : {"text-embedding-ada-002"}, input : InputTypes, user : Opt({"u"})]
    [] ty = "Audio" ->
         [file : {"", "s.wav"}, model : {"whisper-1"}, prompt : Opt({"p"}),
          response_format : Opt(ResponseFormats), temperature : Opt({0}), language : Opt({"en"})]
    [] ty = "Files" -> [file : Opt({"t.jsonl"}), purpose : Opt({"fine-tune"}), file_id : Opt({"id"})]
    [] ty = "FineTune" ->
         [training_file : {"id"}, validation_file : Opt({"id2"}), model : Opt({"curie"}),
          n_epochs : Opt({4}), batch_size : {None}, learning_rate_multiplier : {None},
          prompt_loss_weight : Opt({1}), compute_classification_metrics : Opt({FALSE}),
          classification_n_classes : {None}, classification_positive_class : {None},
          classification_betas : Opt({<<1, 2>>}), suffix : Opt({"s"})]
    [] ty = "Moderation" -> [input : {"", "p"}]

\* a value of one of the structs, not yet serialized
InitSerde ==
  /\ \E ty \in StructTypes : \E v \in Values(ty) : serde = [stage |-> "value", ty |-> ty, value |-> v]
  /\ env = Present("k1")
  /\ api_key = Some(env.key)
  /\ exit_status = None
  /\ model = Chat_default.model
  /\ messages = Chat_default.messages
  /\ temperature = Chat_default.temperature
  /\ stream = Chat_default.stream
  /\ max_tokens = Chat_default.max_tokens
  /\ chat_loop = NoLoop
  /\ image = Image_default
  /\ audio = Audio_default
  /\ files = Files_default
  /\ disable_live_stream = FALSE
  /\ pc = "idle"
  /\ frame = NoFrame
  /\ res = NoRes
  /\ stdout = <<>>
  /\ last = Call("new", <<>>, FALSE, 0)
  /\ pre = NoPre
  /\ ret = NoRet
  /\ sent = <<>>
  /\ got = NoRes
  /\ script = Off

OnlySerde ==
  UNCHANGED <<config, disable_live_stream, pc, frame, res, stdout, last, pre, ret, sent, got,
              script, chat_loop, env, api_key, exit_status, image, audio, files>>

\* serde_json::to_string of the value
serde_to_string ==
  /\ serde.stage = "value"
  /\ serde' = [stage |-> "json", ty |-> serde.ty, value |-> serde.value,
               json |-> Serialize(serde.ty, serde.value)]
  /\ OnlySerde

\* serde_json::from_str of what to_string gave
serde_from_str ==
  /\ serde.stage = "json"
  /\ serde' = [stage |-> "back", ty |-> serde.ty, value |-> serde.value, json |-> serde.json,
               back |-> Deserialize(serde.ty, serde.json)]
  /\ OnlySerde

NextSerde ==
  \/ serde_to_string
  \/ serde_from_str

SpecSerde == InitSerde /\ [][NextSerde]_vars

\* ------------------------------------------------------------------ claims
\* an ask has returned and nothing was called since
AskReturned == pc = "idle" /\ last.op = "ask" /\ ret.kind # "none"

\* the request of the last ask asked for a stream
WasStreamed == Len(sent) = 1 /\ "stream" \in DOMAIN sent[1] /\ sent[1]["stream"]

User(text) == [role |-> "user", content |-> text]
Assistant(text) == [role |-> "assistant", content |-> text]
System(text) == [role |-> "system", content |-> text]

\* C1: after ask(prompt, persist = false) has returned, with an answer or with an
\* error, the history is the history before the call.
C1_ProbeLeavesHistory ==
  (AskReturned /\ ~last.flag) => messages = pre.messages

\* C2: after ask(prompt, persist = true) has returned an answer, the history is the
\* history before the call, then the user message with the prompt, then an
\* assistant message with the returned string, which get_last_message yields.
C2_PersistedTurn ==
  (AskReturned /\ last.flag /\ ret.kind = "ok") =>
    /\ messages = pre.messages \o <<User(last.text), Assistant(ret.text)>>
    /\ get_last_message(messages) = Some(Assistant(ret.text))

C2_Witness ==
  /\ AskReturned /\ last.flag /\ ret.kind = "ok"
  /\ Len(pre.messages) >= 1
  /\ Len(ret.text) >= 1

\* C3: a set_primer(text) step puts a system message with the text at index 0 and
\* every earlier message one place later (so the length grows by one); when the
\* step before was set_primer(a), b is at index 0 and a at index 1.
C3_PrimerInserted ==
  [][last'.op = "set_primer" =>
       /\ messages' = <<System(last'.text)>> \o messages
       /\ last.op = "set_primer" =>
            /\ Len(messages') >= 2
            /\ messages'[1] = System(last'.text)
            /\ messages'[2] = System(last.text)]_vars

C3_Witness ==
  /\ last.op = "set_primer"
  /\ Len(messages) >= 3
  /\ messages[2].role = "system"
  /\ messages[1] # messages[2]
  /\ messages[3].role = "user"

\* C4: on a fresh client, after set_primer(p) and k asks with persist = true that
\* returned answers a_1..a_k, the request of the next ask carries exactly
\* system(p), user(q_1), assistant(a_1), ..., user(q_k), assistant(a_k), user(q_k+1);
\* four messages for k = 1.
C4_RequestCarriesHistory ==
  (pc = "awaiting" /\ script.on /\ script.primed) =>
    /\ Len(sent) = 1
    /\ sent[1]["messages"] = script.exp \o <<User(last.text)>>
    /\ Len(script.exp) = 3 => Len(sent[1]["messages"]) = 4

C4_Witness ==
  /\ pc = "awaiting" /\ script.on /\ script.primed
  /\ Len(script.exp) = 3
  /\ script.exp[3].content # <<>>

\* the lines the reassembler sees: those of each chunk, chunk after chunk
RECURSIVE SeenLines(_)
SeenLines(chunks) == IF Len(chunks) = 0 THEN <<>> ELSE split(Head(chunks)) \o SeenLines(Tail(chunks))

\* the choices of a line that is a data line with a delta, none for any other line
ChoicesOf(line) ==
  LET p == strip_prefix(line) IN
  IF is_none(p) \/ unwrap(p) = <<T_DONE>> \/ ~from_str(unwrap(p)).ok THEN <<>>
  ELSE from_str(unwrap(p)).choices

RECURSIVE ChoicesIn(_)
ChoicesIn(lines) == IF Len(lines) = 0 THEN <<>> ELSE ChoicesOf(Head(lines)) \o ChoicesIn(Tail(lines))

\* the texts of the choices that carry one, in order
RECURSIVE Contents(_)
Contents(choices) ==
  IF Len(choices) = 0 THEN <<>>
  ELSE (IF is_some(Head(choices).content) THEN <<unwrap(Head(choices).content)>> ELSE <<>>)
       \o Contents(Tail(choices))

\* a line of a stream as the server sends it: a delta, the sentinel, or a line
\* without the prefix
ProperLine(line) ==
  LET p == strip_prefix(line) IN
  is_none(p) \/ unwrap(p) = <<T_DONE>> \/ from_str(unwrap(p)).ok

\* every chunk ends where a line ends
LineAligned(chunks) == \A i \in 1..Len(chunks) : Len(chunks[i]) > 0 /\ chunks[i][Len(chunks[i])] = T_NL

\* the response streamed: the full text of each choice is its deltas joined, and
\* the same content not streamed is one JSON object with these choices in the
\* order of their index
FullChoices(choices) ==
  LET idx == { choices[i].index : i \in 1..Len(choices) }
      text(n) == join(Contents(SelectSeq(choices, LAMBDA c : c.index = n)))
      top == IF idx = {} THEN -1 ELSE CHOOSE n \in idx : \A m \in idx : m <= n
      RECURSIVE upto(_)
      upto(n) == IF n < 0 THEN <<>>
                 ELSE upto(n - 1) \o (IF n \in idx THEN <<ChoiceTok(n, Some(text(n)))>> ELSE <<>>)
  IN  upto(top)

\* what the non-streamed branch of ask returns for a JSON body with these choices
NotStreamedAnswer(choices) ==
  join(for_message(json_Response(Delta(choices)).choices, [answer_text |-> <<>>, stdout |-> <<>>], TRUE).answer_text)

\* no delta of a choice arrives after a delta of a choice with a higher index
NotInterleaved(choices) ==
  \A i, j \in 1..Len(choices) : i < j => choices[i].index <= choices[j].index

StreamedWhole ==
  /\ AskReturned /\ WasStreamed /\ is_success(got.status) /\ got.end = "eof"
  /\ LineAligned(got.chunks)
  /\ \A i \in 1..Len(split(join(got.chunks))) : ProperLine(split(join(got.chunks))[i])

BadLineExact(line) ==
  LET p == strip_prefix(line) IN
  is_some(p) /\ unwrap(p) # <<T_DONE>> /\ ~from_str(unwrap(p)).ok

\* a data line the code fails on: its payload does not start with the sentinel
\* and is no delta
BadLinePrefix(line) ==
  LET p == strip_prefix(line) IN
  is_some(p) /\ ~starts_with_done(unwrap(p)) /\ ~from_str(unwrap(p)).ok

\* ask returned the deserialization error after its one request, and no text
FailedOnLine ==
  /\ ret = Err("Deserialization Error")
  /\ Len(sent) = 1

\* C6 as stated: a streamed ask that sees a data line whose payload is neither
\* exactly [DONE] nor a delta returns an error, not the fragments before it.
C6_BadLineExactFails ==
  (AskReturned /\ WasStreamed /\ got.status # 0
     /\ \E i \in 1..Len(SeenLines(got.chunks)) : BadLineExact(SeenLines(got.chunks)[i]))
  => FailedOnLine

\* C6 amended: a streamed ask that sees a data line whose payload neither starts
\* with [DONE] nor is a delta returns an error, not the fragments before it.
C6_BadLineFails ==
  (AskReturned /\ WasStreamed /\ got.status # 0
     /\ \E i \in 1..Len(SeenLines(got.chunks)) : BadLinePrefix(SeenLines(got.chunks)[i]))
  => FailedOnLine

C6_Witness ==
  /\ AskReturned /\ WasStreamed /\ FailedOnLine
  /\ Len(SeenLines(got.chunks)) >= 2
  /\ Len(Contents(ChoicesOf(SeenLines(got.chunks)[1]))) >= 1
  /\ BadLinePrefix(SeenLines(got.chunks)[2])

\* C7: an ask whose response has a failure status returns an error with the
\* remote error's message, and appends no assistant message.
C7_FailureStatusIsError ==
  (AskReturned /\ got.status # 0 /\ ~is_success(got.status)) =>
    /\ ret.kind = "err"
    /\ \E i \in 1..Len(join(got.chunks)) :
         join(got.chunks)[i].k = "error" /\ ret.err = unwrap(join(got.chunks)[i].content)
    /\ messages[Len(messages)].role # "assistant"

\* one trailing newline removed, when there is one
StripOne(content) == IF Len(content) > 0 /\ content[Len(content)] = NL
                     THEN SubSeq(content, 1, Len(content) - 1) ELSE content

RECURSIVE StripEach(_)
StripEach(contents) == IF Len(contents) = 0 THEN <<>> ELSE <<StripOne(Head(contents))>> \o StripEach(Tail(contents))

\* C8: the answer of a streamed ask is made of the delta contents, each with one
\* trailing newline removed when it has one and unchanged otherwise; the same
\* texts are echoed.
C8_OneNewlineStripped ==
  (AskReturned /\ WasStreamed /\ ret.kind = "ok") =>
    /\ ret.text = join(StripEach(Contents(ChoicesIn(SeenLines(got.chunks)))))
    /\ ~disable_live_stream =>
         stdout = <<AI_PREFIX>> \o StripEach(Contents(ChoicesIn(SeenLines(got.chunks)))) \o <<(<<NL>>)>>

\* the nearest value of [0, limit]
Nearest(t, limit) == IF t < 0 THEN 0 ELSE IF t > limit THEN limit ELSE t

\* C9: the request of an ask carries the temperature set before the call, moved
\* to the nearest bound of [0, 2.0] when it was outside.
C9_TemperatureClamped ==
  (pc = "awaiting" /\ is_some(pre.temperature)) =>
    /\ temperature = Some(Nearest(unwrap(pre.temperature), CHAT_TEMPERATURE_LIMIT))
    /\ sent[1]["temperature"] = Nearest(unwrap(pre.temperature), CHAT_TEMPERATURE_LIMIT)

\* C10: with live output disabled an ask writes nothing to the standard output.
C10_QuietWhenDisabled ==
  (last.op = "ask" /\ disable_live_stream) => stdout = <<>>

\* chat has returned, and how readline or ask ended it
ChatEnded(ends) == ~chat_loop.on /\ chat_loop.end \in ends

\* C13: inside chat every line read goes to ask(line, persist = true); chat returns
\* Ok when CTRL-C or CTRL-D ends it, and an error when readline fails in another
\* way or when an ask fails.
C13_ChatLoopResult ==
  /\ (chat_loop.on /\ pc \in {"awaiting", "draining"}) =>
       (last.op = "ask" /\ last.text \in Lines /\ last.flag /\ frame.persist_state)
  /\ ChatEnded({"Interrupted", "Eof"}) => chat_loop.ret.kind = "ok"
  /\ ChatEnded({"Other", "ask"}) => chat_loop.ret.kind = "err"

\* C14: without the credential in the environment the process never has a client
\* and construction ends it with status 1; with the credential the client holds
\* it, and right after construction live output is on and the chat configuration
\* is the default one (empty history, streaming on).
C14_Construction ==
  /\ env.var # "Ok" =>
       /\ api_key = None
       /\ pc \in {"start", "exited"}
       /\ last.op = "new" => (pc = "exited" /\ exit_status = Some(1))
  /\ env.var = "Ok" =>
       /\ exit_status = None
       /\ pc # "start" => api_key = Some(env.key)
       /\ last.op = "new" =>
            /\ pc = "idle"
            /\ disable_live_stream = FALSE
            /\ messages = <<>>
            /\ stream = Some(TRUE)
            /\ model = DEFAULT_MODEL
            /\ temperature = Some(DEFAULT_TEMPERATURE)
            /\ max_tokens = Some(DEFAULT_MAX_TOKENS)

C14_Witness ==
  /\ last.op = "new"
  /\ pc = "idle"
  /\ api_key = Some("k2")

\* a line the reassembler is to pass over: no `data: ` prefix, or the sentinel
Ignorable(line) == is_none(strip_prefix(line)) \/ unwrap(strip_prefix(line)) = <<T_DONE>>

\* C16: a streamed ask returns, and echoes, what it would for the same stream
\* without its lines that lack the `data: ` prefix and without its [DONE] lines:
\* these add no fragment and raise no error; when no other line is left the
\* answer is the empty string.
C16_IgnoredLinesChangeNothing ==
  (AskReturned /\ WasStreamed /\ got.status # 0) =>
    LET kept == SelectSeq(SeenLines(got.chunks), LAMBDA l : ~Ignorable(l))
        r == for_line(kept, [answer_text |-> <<>>, stdout |-> <<AI_PREFIX>>], disable_live_stream)
    IN  /\ ret = IF r.ok THEN Ok(join(r.st.answer_text)) ELSE Err("Deserialization Error")
        /\ stdout = IF r.ok THEN Append(r.st.stdout, <<NL>>) ELSE r.st.stdout
        /\ kept = <<>> => ret = Ok(<<>>)

C16_Witness ==
  /\ AskReturned /\ WasStreamed /\ got.status # 0
  /\ \E i, j \in 1..Len(SeenLines(got.chunks)) :
       /\ SeenLines(got.chunks)[i] = <<T_X>>
       /\ SeenLines(got.chunks)[j] = DataLine(<<T_DONE>>)
  /\ ret = Ok(<<>>)

\* C20: a clear_state step leaves an empty history, whatever it held, and changes
\* no other setting of the chat client, not the credential and not the
\* live-output switch.
C20_ClearStateOnlyHistory ==
  [][last'.op = "clear_state" =>
       /\ messages' = <<>>
       /\ UNCHANGED <<model, temperature, max_tokens, stream, api_key, disable_live_stream>>]_vars

C20_Witness ==
  /\ last.op = "clear_state"
  /\ last.flag
  /\ last.num >= 3
  /\ messages = <<>>
  /\ model = "gpt-4"
  /\ max_tokens = Some(16)
  /\ temperature = Some(5)
  /\ stream = Some(FALSE)
  /\ disable_live_stream = TRUE

\* C11: after an edit called with mask = None the configuration holds no mask and
\* the multipart request, when one was sent, has no mask part, whatever the
\* calls before it were.
C11_EditWithoutMaskSendsNone ==
  (last.op = "edit" /\ last.mask = None) =>
    /\ image.mask = None
    /\ \A i \in 1..Len(sent) : "mask" \notin DOMAIN sent[i].form

\* C12: create, edit and variation leave the image count, the size, the response
\* format and the user of the configuration as the caller set them.
C12_OperationsKeepSettings ==
  (last.op \in {"create", "edit", "variation"}) =>
    /\ image.n = pre.n
    /\ image.size = pre.size
    /\ image.response_format = pre.response_format
    /\ image.user = pre.user


\* the operations whose response goes through handle_api_errors
RoutedOps ==
  { "files.list", "files.retrieve", "files.retrieve_content", "files.upload", "files.delete",
    "create", "edit", "variation", "embed", "transcribe", "translate", "moderate",
    "fine_tune.create", "fine_tune.list", "fine_tune.retrieve", "fine_tune.cancel",
    "fine_tune.list_events", "fine_tune.delete_model" }

\* the last operation sent its request and was answered
Answered == last.op \in RoutedOps /\ Len(sent) = 1 /\ got # SendFailed /\ got # NoRes

\* C15: of every operation that passes its response through handle_api_errors,
\* an answer without a success status whose body is a structured error gives the
\* error that is exactly the message of that body; an answer with a success
\* status goes on to the decoding as it is, so the operation returns what the
\* body decodes to or the error of the decoding, never a remote message.
C15_ErrorsCarryRemoteMessage ==
  Answered =>
    /\ \A msg \in ErrorMessages :
         (~is_success(got.status) /\ got.chunks = <<StructuredError(msg)>>) => ret = ErrMessage(msg)
    /\ is_success(got.status) =>
         /\ ret.kind = "err" => ret.err \in {<<"decode">>, <<"transport">>}
         /\ got.chunks = <<<<T_OPEN, DataTok("v"), T_CLOSE>>>> => ret = Ok(<<DataTok("v")>>)

C15_Witness ==
  /\ last.op = "files.delete"
  /\ got.status = 404
  /\ ret = ErrMessage(<<"n", "o">>)

\* C17: making the file part of a path that does not exist, by itself or inside
\* an upload, an image or an audio operation, returns an error, and no request
\* is sent.
C17_MissingPathIsAnError ==
  ( /\ last.op \in {"create_file_upload_part", "files.upload", "edit", "variation", "transcribe", "translate"}
    /\ ~exists(unwrap(last.path)) )
  => (ret.kind = "err" /\ sent = <<>>)

\* the name ends in .jsonl, in any case of the letters, after a stem
HasJsonlExtension(p) ==
  /\ Len(p) > 6
  /\ [i \in 1..6 |-> to_ascii_lowercase(p[Len(p) - 6 + i])] = <<".", "j", "s", "o", "n", "l">>

\* C18: upload sends a request only for a path that is an existing regular file
\* with the extension jsonl in any case; for every other path it returns an
\* error, sends nothing and leaves the file of the configuration as it was.
C18_UploadAcceptsOnlyJsonlFiles ==
  (last.op = "files.upload") =>
    LET p == unwrap(last.path)
        fits == p \in DOMAIN Disk /\ Disk[p] = "file" /\ HasJsonlExtension(p)
    IN  /\ sent # <<>> => fits
        /\ ~fits => (ret.kind = "err" /\ sent = <<>> /\ files = pre.files)

C18_Witness ==
  /\ last.op = "files.upload"
  /\ last.path = Some(TXT)
  /\ ret.kind = "err"
  /\ pre.files.file = Some(JSONL_UPPER)
  /\ files.file = Some(JSONL_UPPER)


\* a JSON value that is null or holds a null at any depth
RECURSIVE HasNull(_)
HasNull(j) ==
  \/ "null" \in DOMAIN j
  \/ "arr" \in DOMAIN j /\ \E i \in 1..Len(j.arr) : HasNull(j.arr[i])
  \/ "obj" \in DOMAIN j /\ \E key \in DOMAIN j.obj : HasNull(j.obj[key])

\* C19: of every configuration struct, and of Message and Function, the JSON
\* has no key for an Option that is None and no null anywhere, and reading it
\* back succeeds and gives every present field the value it had.
C19_RoundTrip ==
  /\ serde.stage \in {"json", "back"} =>
       /\ ~HasNull(serde.json)
       /\ \A n \in DOMAIN Fields(serde.ty) :
            (Fields(serde.ty)[n].optional /\ is_none(serde.value[n])) => n \notin DOMAIN serde.json.obj
  /\ serde.stage = "back" =>
       /\ serde.back.ok
       /\ \A n \in DOMAIN Fields(serde.ty) :
            (~Fields(serde.ty)[n].optional \/ is_some(serde.value[n])) => serde.back.v[n] = serde.value[n]


\* the places where one chunk ends and the next begins, counted in tokens of the body
Boundaries(chunks) ==
  { Len(join(SubSeq(chunks, 1, i))) : i \in 1..(Len(chunks) - 1) }

\* a chunk boundary falls inside the JSON payload of a data line of the body:
\* the line runs from s to e, is `data: ` and a delta, and the boundary comes
\* after the first token of the payload and before its last
CutsPayload(chunks) ==
  LET body == join(chunks) IN
  \E s \in 1..Len(body), e \in 1..Len(body) :
    /\ s = 1 \/ body[s - 1] = T_NL
    /\ e = Len(body) \/ body[e + 1] = T_NL
    /\ s + 2 <= e
    /\ \A i \in s..e : body[i] # T_NL
    /\ is_some(strip_prefix(SubSeq(body, s, e)))
    /\ from_str(unwrap(strip_prefix(SubSeq(body, s, e)))).ok
    /\ \E c \in Boundaries(chunks) : s + 2 <= c /\ c < e

\* C21: a streamed ask keeps nothing of a chunk for the next one: when a chunk
\* boundary falls inside the JSON payload of a data line, the two parts are
\* not put together and the ask returns the deserialization error.
C21_CutPayloadFails ==
  (AskReturned /\ WasStreamed /\ got.status # 0 /\ CutsPayload(got.chunks)) =>
    ret = Err("Deserialization Error")


\* C22: the answer of a streamed ask is the contents of the deltas it read, one
\* after the other with nothing between: chunk after chunk, line after line
\* inside a chunk, choice after choice inside a delta, each once; a delta
\* without content adds nothing.
C22_AnswerIsFragmentsInOrder ==
  (AskReturned /\ WasStreamed /\ ret.kind = "ok") =>
    ret.text = join(Contents(ChoicesIn(SeenLines(got.chunks))))

C22_Witness ==
  /\ AskReturned /\ WasStreamed /\ ret.kind = "ok"
  /\ Len(got.chunks) = 2
  /\ Len(SeenLines(<<got.chunks[1]>>)) = 2
  /\ ret.text = <<"a", "c", "b", NL>>


\* the chunk the reassembler is about to read holds a data line it fails on
HeadFails == \E i \in 1..Len(split(Head(res.chunks))) : BadLinePrefix(split(Head(res.chunks))[i])

C24_OneAttempt ==
  [][ /\ (pc = "idle" /\ pc' = "awaiting") => Len(sent') = 1
      /\ (pc # "idle") =>
           /\ Len(sent) = 1
           /\ sent' = sent
           /\ pc' \in {"draining", "idle"}
           /\ (pc = "draining" /\ pc' = "draining") => Len(res'.chunks) < Len(res.chunks)
           /\ (ret'.kind = "err") => (pc' = "idle" /\ messages' = messages) ]_vars

\* a streamed ask whose body broke off in a read error has returned it, one
\* request sent
C24_Witness ==
  /\ AskReturned
  /\ WasStreamed
  /\ got.status # 0
  /\ got.end = "err"
  /\ ret = Err("transport")
  /\ Len(sent) = 1


\* what a program has set up: the configuration of each client, the live-output
\* switch and the credential
Setup ==
  [chat |-> [model |-> model, messages |-> messages, temperature |-> temperature,
             stream |-> stream, max_tokens |-> max_tokens],
   image |-> image,
   audio |-> audio,
   files |-> files,
   client |-> [disable_live_stream |-> disable_live_stream, api_key |-> api_key]]

Whole(c) == { <<c, f>> : f \in DOMAIN Setup[c] }

\* the settings a builder call names
Named(op) ==
  CASE op = "set_model" -> {<<"chat", "model">>}
    [] op = "set_max_tokens" -> {<<"chat", "max_tokens">>}
    [] op = "set_temperature" -> {<<"chat", "temperature">>}
    [] op = "set_stream_responses" -> {<<"chat", "stream">>}
    [] op \in {"set_messages", "set_primer", "clear_state"} -> {<<"chat", "messages">>}
    [] op = "chat.with_config" -> Whole("chat")
    [] op = "disable_stdout" -> {<<"client", "disable_live_stream">>}
    [] op = "set_size" -> {<<"image", "size">>}
    [] op = "set_max_images" -> {<<"image", "n">>}
    [] op = "set_response_format" -> {<<"image", "response_format">>}
    [] op = "with_config" -> Whole("image")
    [] op = "audio.set_model" -> {<<"audio", "model">>}
    [] op = "audio.set_prompt" -> {<<"audio", "prompt">>}
    [] op = "audio.set_response_format" -> {<<"audio", "response_format">>}
    [] op = "audio.with_config" -> Whole("audio")

Builders ==
  {"set_model", "set_max_tokens", "set_temperature", "set_stream_responses", "set_messages",
   "set_primer", "clear_state", "chat.with_config", "disable_stdout", "set_size",
   "set_max_images", "set_response_format", "with_config", "audio.set_model",
   "audio.set_prompt", "audio.set_response_format", "audio.with_config"}

\* C25: a builder call issues no request and prints nothing, hands the client
\* back ready for the next call, and changes no setting but the one it names (the
\* whole configuration for with_config): every other field of every
\* configuration, the live-output switch and the credential stay as they were,
\* and the setting named takes the value given where the call records it.
C25_BuildersChangeOneSetting ==
  [][ (last'.op \in Builders /\ <<last, Setup>>' # <<last, Setup>>) =>
        /\ sent' = <<>> /\ got' = NoRes /\ stdout' = <<>>
        /\ pc' = "idle" /\ ret' = NoRet
        /\ \A c \in DOMAIN Setup : \A f \in DOMAIN Setup[c] :
             <<c, f>> \notin Named(last'.op) => Setup'[c][f] = Setup[c][f]
        /\ last'.op = "set_max_tokens" => max_tokens' = Some(last'.num)
        /\ last'.op = "set_temperature" => temperature' = Some(last'.num)
        /\ last'.op = "set_stream_responses" => stream' = Some(last'.flag)
        /\ last'.op = "set_primer" => messages' = <<MessageNew("system", last'.text)>> \o messages
        /\ last'.op = "clear_state" => messages' = <<>>
        /\ last'.op = "disable_stdout" => disable_live_stream'
        /\ last'.op = "set_max_images" => image'.n = Some(last'.num) ]_vars

\* set_size called after a request was answered, on a client whose other settings
\* had been changed: they are kept, and nothing is sent
C25_Witness ==
  /\ last.op = "set_size"
  /\ image.size = Some(Size_to_string(<<256, 256>>))
  /\ image.prompt = Some(<<"p">>)
  /\ image.n = Some(3)
  /\ image.response_format = Some(ResponseDataType_to_string("Base64Json"))
  /\ audio.model = "whisper-2"
  /\ sent = <<>>


SentContents(chunks) == Contents(ChoicesIn(split(join(chunks))))

\* C27: however the body of a streamed response is cut into chunks, an ask that
\* returns an answer returns every content delta the server sent, in order;
\* otherwise it returns an error.
C27_NoDeltaDropped ==
  (AskReturned /\ WasStreamed /\ got.status # 0) =>
    \/ ret.kind = "err"
    \/ ret.kind = "ok" /\ ret.text = join(SentContents(got.chunks))


\* transcribe or translate has returned one of the errors of its local checks
FailedLocally ==
  /\ last.op \in {"transcribe", "translate"}
  /\ ret.kind = "err"
  /\ ret.err \in {<<"Path is not a file">>, <<"Invalid audio file type">>,
                  <<"Invalid model">>, <<"Invalid language code">>}

\* C28: a transcribe or translate call that fails a local check (the path, the
\* file type, the model, the language) sends no request and leaves the file, the
\* temperature and the language of the audio configuration as they were.
C28_LocalFailureChangesNothing ==
  FailedLocally =>
    /\ sent = <<>>
    /\ audio.file = pre.audio.file
    /\ audio.temperature = pre.audio.temperature
    /\ audio.language = pre.audio.language


\* C29: whatever image calls came before on the client, the request of create
\* carries the prompt of the call and neither image nor mask, and the request of
\* variation carries the image of the call and neither prompt nor mask.
C29_NoLeftoverFields ==
  /\ (last.op = "create") =>
       /\ Len(sent) = 1
       /\ "prompt" \in DOMAIN sent[1].json
       /\ sent[1].json["prompt"] = last.text
       /\ {"image", "mask"} \cap DOMAIN sent[1].json = {}
       /\ image.image = None /\ image.mask = None
  /\ (last.op = "variation") =>
       /\ Len(sent) <= 1
       /\ sent = <<>> => ret.kind # "ok"
       /\ sent # <<>> =>
            /\ "image" \in DOMAIN sent[1].form
            /\ sent[1].form["image"] = create_file_upload_part(unwrap(last.path)).text
            /\ {"prompt", "mask"} \cap DOMAIN sent[1].form = {}
       /\ image.prompt = None /\ image.mask = None

\* create called on a client whose configuration held the image and the mask of
\* an edit: the request has the prompt only
C29_Witness ==
  /\ last.op = "create"
  /\ is_some(pre.image)
  /\ is_some(pre.mask)
  /\ Len(sent) = 1
  /\ "prompt" \in DOMAIN sent[1].json
  /\ "image" \notin DOMAIN sent[1].json


\* the lines of the body that retrieve_content was answered with
ContentLines == str_lines(join(got.chunks))

\* retrieve_content was answered with a success status and read the body whole
ContentRead ==
  /\ last.op = "files.retrieve_content"
  /\ is_success(got.status)
  /\ got.end = "eof"

\* C30: retrieve_content parses each line of the body by itself and gives all or
\* nothing: one entry per line, in the order of the lines, when every line is a
\* prompt/completion object, and an error without any entry when one line is
\* not, a blank line included.
C30_AllLinesOrNone ==
  ContentRead =>
    IF \A i \in 1..Len(ContentLines) : is_prompt_completion(ContentLines[i])
    THEN /\ ret.kind = "ok"
         /\ Len(ret.text) = Len(ContentLines)
         /\ \A i \in 1..Len(ContentLines) : ret.text[i] = ContentLines[i][1]
    ELSE ret.kind = "err" /\ ret.text = <<>>

\* a body of two objects with a blank line between them: an error, no entry
C30_Witness ==
  /\ ContentRead
  /\ join(got.chunks) = <<LineTok("a"), T_NL, T_NL, LineTok("b"), T_NL>>
  /\ ret = Err("decode")

====
